---- MODULE Spec2Model ----
(***************************************************************************)
(* Processing-job lifecycle engine of the document-ingestion backend:      *)
(* the job snapshot and its mutators (ProcessingJobService and the         *)
(* ProcessingJob entity), the Prisma job repository, the deduplication     *)
(* gate, the retry loop with its dead-letter sink, and the document        *)
(* processing orchestrator.                                                *)
(***************************************************************************)
EXTENDS Integers, Sequences, FiniteSets, TLC

VARIABLES
    now,        \* the wall clock read by new Date() / Date.now()
    impl,       \* which job implementation the snapshot scenario drives
    job,        \* the current in-memory job snapshot
    prevJob,    \* the snapshot the last mutator was applied to
    lastOp,     \* the last mutator call: its name, arguments, and whether it returned
    store,      \* the ProcessingJob table: job id -> stored row
    saves,      \* how many times a creation path called the repository's save
    deadLetters,\* the DeadLetter table: the records saved, in order
    procs,      \* the concurrent callers: position and locals of each
    run,        \* the retry loop: position, counters and current job
    schema,     \* the unique index the ProcessingJob table has
    documents   \* the Document table: document id -> status

jobVars == <<impl, job, prevJob, lastOp>>
\* what the snapshot scenario leaves alone
outsideJob == <<now, store, saves, deadLetters, procs, run, schema, documents>>
\* what the deduplication scenario leaves alone
outsideDedup == <<impl, prevJob, deadLetters, procs, run, schema, documents>>
\* what the retry scenario leaves alone
outsideRetry == <<impl, job, prevJob, lastOp, saves, procs, schema, documents>>
\* what the repository scenario leaves alone
outsideRepo == <<now, impl, job, prevJob, lastOp, saves, deadLetters, run, schema, documents>>
\* what the processing scenario leaves alone
outsideProc == <<job, prevJob, lastOp, saves, deadLetters, run, documents>>
vars == <<now, impl, job, prevJob, lastOp, store, saves, deadLetters, procs, run, schema, documents>>

(***************************************************************************)
(* Bounds of the model.                                                    *)
(***************************************************************************)
MaxStarts == 4          \* start attempts explored on one snapshot

(***************************************************************************)
(* Values.  An optional value (T | undefined) is <<>> when undefined and   *)
(* <<v>> when it holds v.                                                  *)
(***************************************************************************)
None == <<>>
Some(v) == <<v>>

\* a ?? b, both optional
Coalesce(a, b) == IF a = None THEN b ELSE a
\* a ?? b, or a parameter's default value: b is a plain value
OrElse(a, b) == IF a = None THEN b ELSE a[1]

PENDING == "PENDING"
RUNNING == "RUNNING"
RETRYING == "RETRYING"
COMPLETED == "COMPLETED"
FAILED == "FAILED"
CANCELLED == "CANCELLED"
DEAD_LETTER == "DEAD_LETTER"

ProcessingStatus == {PENDING, RUNNING, RETRYING, COMPLETED, FAILED, CANCELLED, DEAD_LETTER}

ProcessingType == {"TEXT_EXTRACTION", "FULL_PROCESSING"}

DocumentIds == {"d1", "d2"}
ProgressInputs == {-5, 0, 40, 100, 150}
ErrorInputs == {"boom"}
ResultInputs == {None, Some("text")}
CheckpointInputs == {None, Some(1)}

Max(a, b) == IF a >= b THEN a ELSE b
Min(a, b) == IF a <= b THEN a ELSE b

(***************************************************************************)
(* ProcessingJob as ProcessingJobService builds it (the attemptCount       *)
(* shape of the entity).                                                   *)
(***************************************************************************)
NewJob(id, documentId, jobType, status, progress, attemptCount, errorMessage, jobDetails, result, lastProcessedChunkIndex, processedChunksCount, processedEmbeddingsCount, startedAt, completedAt, createdAt) ==
    [id |-> id, documentId |-> documentId, jobType |-> jobType,
     status |-> status, progress |-> progress, attemptCount |-> attemptCount,
     errorMessage |-> errorMessage, jobDetails |-> jobDetails,
     result |-> result,
     lastProcessedChunkIndex |-> lastProcessedChunkIndex,
     processedChunksCount |-> processedChunksCount,
     processedEmbeddingsCount |-> processedEmbeddingsCount,
     startedAt |-> startedAt, completedAt |-> completedAt,
     createdAt |-> OrElse(createdAt, now), updatedAt |-> now]

\* ProcessingJobService.create
Create(id, documentId, jobType, jobDetails) ==
    NewJob(id, documentId, jobType, PENDING, 0, 0, None, jobDetails, None, None, 0, 0, None, None, None)

\* ProcessingJobService.isTerminal
IsTerminal(j) ==
    \/ j.status = COMPLETED
    \/ j.status = FAILED
    \/ j.status = CANCELLED
    \/ j.status = DEAD_LETTER

\* ProcessingJobService.isRunning
IsRunning(j) == j.status = RUNNING

\* a canRetry that also applied the attempt limit
CanRetry_WithLimit(j) == j.status = FAILED /\ j.attemptCount < 3

\* ProcessingJobService.canRetry
CanRetry(j) == j.status = FAILED

\* ProcessingJobService.isPending
IsPending(j) == j.status = PENDING \/ j.status = RETRYING

\* ProcessingJobService.canTransitionTo: the table of valid transitions
validTransitions ==
    [s \in ProcessingStatus |->
        CASE s = PENDING -> {RUNNING, CANCELLED}
          [] s = RUNNING -> {COMPLETED, FAILED, CANCELLED}
          [] s = COMPLETED -> {}
          [] s = FAILED -> {RETRYING, DEAD_LETTER}
          [] s = CANCELLED -> {}
          [] s = RETRYING -> {RUNNING, CANCELLED, DEAD_LETTER}
          [] s = DEAD_LETTER -> {}]

CanTransitionTo(currentStatus, newStatus) ==
    IF currentStatus \in DOMAIN validTransitions
    THEN newStatus \in validTransitions[currentStatus]
    ELSE FALSE

(***************************************************************************)
(* The mutators of ProcessingJobService.  Each is a guard (the condition   *)
(* under which it returns instead of throwing) and the snapshot returned.  *)
(***************************************************************************)
StartOk(j) == ~(j.status # PENDING /\ j.status # RETRYING)

\* a start that does not count the attempt
Start_NoCount(j) ==
    NewJob(j.id, j.documentId, j.jobType, RUNNING, j.progress, j.attemptCount, j.errorMessage, j.jobDetails, j.result, j.lastProcessedChunkIndex, j.processedChunksCount, j.processedEmbeddingsCount, Some(now), j.completedAt, Some(j.createdAt))

\* ProcessingJobService.start
Start(j) ==
    NewJob(j.id, j.documentId, j.jobType, RUNNING, j.progress, j.attemptCount + 1, j.errorMessage, j.jobDetails, j.result, j.lastProcessedChunkIndex, j.processedChunksCount, j.processedEmbeddingsCount, Some(now), j.completedAt, Some(j.createdAt))

UpdateProgressOk(j) == IsRunning(j)

UpdateProgress(j, progress, lastProcessedChunkIndex, processedChunksCount, processedEmbeddingsCount) ==
    LET validProgress == Max(0, Min(100, progress))
    IN  NewJob(j.id, j.documentId, j.jobType, j.status, validProgress,
               j.attemptCount, j.errorMessage, j.jobDetails, j.result,
               Coalesce(lastProcessedChunkIndex, j.lastProcessedChunkIndex),
               OrElse(processedChunksCount, j.processedChunksCount),
               OrElse(processedEmbeddingsCount, j.processedEmbeddingsCount),
               j.startedAt, j.completedAt, Some(j.createdAt))

CompleteOk(j) == IsRunning(j)

Complete(j, result) ==
    NewJob(j.id, j.documentId, j.jobType, COMPLETED, 100, j.attemptCount, j.errorMessage, j.jobDetails, result, j.lastProcessedChunkIndex, j.processedChunksCount, j.processedEmbeddingsCount, j.startedAt, Some(now), Some(j.createdAt))

FailOk(j) == ~IsTerminal(j)

\* a fail that leaves the job in DEAD_LETTER
Fail_DeadLetter(j, errorMessage) ==
    NewJob(j.id, j.documentId, j.jobType, DEAD_LETTER, j.progress, j.attemptCount, Some(errorMessage), j.jobDetails, j.result, j.lastProcessedChunkIndex, j.processedChunksCount, j.processedEmbeddingsCount, j.startedAt, Some(now), Some(j.createdAt))

Fail(j, errorMessage) ==
    NewJob(j.id, j.documentId, j.jobType, FAILED, j.progress, j.attemptCount, Some(errorMessage), j.jobDetails, j.result, j.lastProcessedChunkIndex, j.processedChunksCount, j.processedEmbeddingsCount, j.startedAt, Some(now), Some(j.createdAt))

CancelOk(j) == ~IsTerminal(j)

Cancel(j) ==
    NewJob(j.id, j.documentId, j.jobType, CANCELLED, j.progress, j.attemptCount, j.errorMessage, j.jobDetails, j.result, j.lastProcessedChunkIndex, j.processedChunksCount, j.processedEmbeddingsCount, j.startedAt, Some(now), Some(j.createdAt))

RetryOk(j) == CanRetry(j)

\* a retry that keeps the progress and the error of the failed attempt
Retry_KeepProgress(j) ==
    NewJob(j.id, j.documentId, j.jobType, RETRYING, j.progress, j.attemptCount, j.errorMessage, j.jobDetails, None, j.lastProcessedChunkIndex, j.processedChunksCount, j.processedEmbeddingsCount, None, None, Some(j.createdAt))

\* ProcessingJobService.retry
Retry(j) ==
    NewJob(j.id, j.documentId, j.jobType, RETRYING, 0, j.attemptCount, None, j.jobDetails, None, j.lastProcessedChunkIndex, j.processedChunksCount, j.processedEmbeddingsCount, None, None, Some(j.createdAt))

(***************************************************************************)
(* ProcessingJob, the entity with its own mutators (the retryCount shape:  *)
(* a retry is a new job linked to the one it retries).  A job id is a      *)
(* base name and the Date.now() stamps appended to it:                     *)
(* `retry-${id}-${Date.now()}` appends one stamp.                          *)
(***************************************************************************)
LitId(name) == [base |-> name, stamps |-> <<>>]
StampedId(name, t) == [base |-> name, stamps |-> <<t>>]
RetryId(id, t) == [base |-> id.base, stamps |-> Append(id.stamps, t)]

NoDetails == [contentHash |-> None, retryOf |-> None, originalJobId |-> None, retryCount |-> None, progressMessage |-> None, parentJobId |-> None]

Job(id, documentId, jobType, status, progress, errorMessage, jobDetails, result, startedAt, completedAt, createdAt, progressMessage, retryCount, parentJobId) ==
    [id |-> id, documentId |-> documentId, jobType |-> jobType,
     status |-> status, progress |-> progress,
     errorMessage |-> errorMessage, jobDetails |-> jobDetails,
     result |-> result, startedAt |-> startedAt, completedAt |-> completedAt,
     createdAt |-> OrElse(createdAt, now),
     progressMessage |-> progressMessage,
     retryCount |-> OrElse(retryCount, 0), parentJobId |-> parentJobId]

\* a create that returns a job already RUNNING
Job_create_Running(id, documentId, jobType, jobDetails) ==
    Job(id, documentId, jobType, RUNNING, 0, None, jobDetails, None, None, None, Some(now), Some("Job created"), Some(0), None)

\* ProcessingJob.create
Job_create(id, documentId, jobType, jobDetails) ==
    Job(id, documentId, jobType, PENDING, 0, None, jobDetails, None, None, None, Some(now), Some("Job created"), Some(0), None)

\* ProcessingJob.isTerminal
Job_isTerminal(j) ==
    \/ j.status = COMPLETED
    \/ j.status = FAILED
    \/ j.status = CANCELLED

\* ProcessingJob.canRetry
Job_canRetry(j) == j.status = FAILED /\ j.retryCount < 3

Job_startOk(j) == ~(j.status # PENDING)

Job_start(j) ==
    Job(j.id, j.documentId, j.jobType, RUNNING, j.progress, None, j.jobDetails, j.result, Some(now), None, Some(j.createdAt), Some("Job started"), Some(j.retryCount), j.parentJobId)

Job_completeOk(j) == ~(j.status # RUNNING)

Job_complete(j, result) ==
    Job(j.id, j.documentId, j.jobType, COMPLETED, 100, None, j.jobDetails, result, j.startedAt, Some(now), Some(j.createdAt), Some("Job completed successfully"), Some(j.retryCount), j.parentJobId)

Job_failOk(j) == ~Job_isTerminal(j)

Job_fail(j, error) ==
    Job(j.id, j.documentId, j.jobType, FAILED, j.progress, Some(error), j.jobDetails, j.result, j.startedAt, Some(now), Some(j.createdAt), Some("Job failed"), Some(j.retryCount), j.parentJobId)

Job_cancelOk(j) == ~Job_isTerminal(j)

Job_cancel(j, reason) ==
    Job(j.id, j.documentId, j.jobType, CANCELLED, j.progress, reason, j.jobDetails, j.result, j.startedAt, Some(now), Some(j.createdAt), Some("Job cancelled"), Some(j.retryCount), j.parentJobId)

Job_retryOk(j) == Job_canRetry(j)

Job_retry(j) ==
    Job(RetryId(j.id, now), j.documentId, j.jobType, PENDING, 0, None, [j.jobDetails EXCEPT !.retryOf = Some(j.id)], None, None, None, Some(now), Some("Job created for retry"), Some(j.retryCount + 1), Some(j.id))

Job_updateProgressOk(j, progress) ==
    /\ ~(j.status # RUNNING)
    /\ ~(progress < 0 \/ progress > 100)

Job_updateProgress(j, progress) ==
    Job(j.id, j.documentId, j.jobType, j.status, progress, j.errorMessage, j.jobDetails, j.result, j.startedAt, j.completedAt, Some(j.createdAt), j.progressMessage, Some(j.retryCount), j.parentJobId)

Job_withProgressMessage(j, message) ==
    Job(j.id, j.documentId, j.jobType, j.status, j.progress, j.errorMessage, j.jobDetails, j.result, j.startedAt, j.completedAt, Some(j.createdAt), Some(message), Some(j.retryCount), j.parentJobId)

(***************************************************************************)
(* The snapshot scenario: one job is created and the mutators of one       *)
(* implementation are applied to it in any order with any arguments.  A    *)
(* call that throws leaves the caller's snapshot as it was.                *)
(***************************************************************************)
NoArgs == [progress |-> 0, chunkIndex |-> None, chunks |-> None, embeddings |-> None, error |-> None, result |-> None]

Returned(op, args, j) ==
    /\ prevJob' = job
    /\ job' = j
    /\ lastOp' = [op |-> op, ok |-> TRUE, args |-> args]

Threw(op, args) ==
    /\ prevJob' = job
    /\ job' = job
    /\ lastOp' = [op |-> op, ok |-> FALSE, args |-> args]

InitJob ==
    /\ impl \in {"service", "entity"}
    /\ \E d \in DocumentIds, t \in ProcessingType :
          job = IF impl = "service"
                THEN Create("j1", d, t, [contentHash |-> Some("h1")])
                ELSE Job_create(LitId("j1"), d, t, [NoDetails EXCEPT !.contentHash = Some("h1")])
    /\ prevJob = job
    /\ lastOp = [op |-> "create", ok |-> TRUE, args |-> NoArgs]

SvcStart ==
    /\ impl = "service"
    /\ IF StartOk(job)
       THEN job.attemptCount < MaxStarts /\ Returned("start", NoArgs, Start(job))
       ELSE Threw("start", NoArgs)
    /\ UNCHANGED <<impl, outsideJob>>

SvcUpdateProgress ==
    /\ impl = "service"
    /\ \E p \in ProgressInputs, ci \in CheckpointInputs, cc \in CheckpointInputs, ec \in CheckpointInputs :
          LET args == [NoArgs EXCEPT !.progress = p, !.chunkIndex = ci, !.chunks = cc, !.embeddings = ec]
          IN  IF UpdateProgressOk(job)
              THEN Returned("updateProgress", args, UpdateProgress(job, p, ci, cc, ec))
              ELSE Threw("updateProgress", args)
    /\ UNCHANGED <<impl, outsideJob>>

SvcComplete ==
    /\ impl = "service"
    /\ \E r \in ResultInputs :
          LET args == [NoArgs EXCEPT !.result = r]
          IN  IF CompleteOk(job)
              THEN Returned("complete", args, Complete(job, r))
              ELSE Threw("complete", args)
    /\ UNCHANGED <<impl, outsideJob>>

SvcFail ==
    /\ impl = "service"
    /\ \E e \in ErrorInputs :
          LET args == [NoArgs EXCEPT !.error = Some(e)]
          IN  IF FailOk(job)
              THEN Returned("fail", args, Fail(job, e))
              ELSE Threw("fail", args)
    /\ UNCHANGED <<impl, outsideJob>>

SvcCancel ==
    /\ impl = "service"
    /\ IF CancelOk(job)
       THEN Returned("cancel", NoArgs, Cancel(job))
       ELSE Threw("cancel", NoArgs)
    /\ UNCHANGED <<impl, outsideJob>>

SvcRetry ==
    /\ impl = "service"
    /\ IF RetryOk(job)
       THEN Returned("retry", NoArgs, Retry(job))
       ELSE Threw("retry", NoArgs)
    /\ UNCHANGED <<impl, outsideJob>>

EntStart ==
    /\ impl = "entity"
    /\ IF Job_startOk(job)
       THEN Returned("start", NoArgs, Job_start(job))
       ELSE Threw("start", NoArgs)
    /\ UNCHANGED <<impl, outsideJob>>

EntUpdateProgress ==
    /\ impl = "entity"
    /\ \E p \in ProgressInputs :
          LET args == [NoArgs EXCEPT !.progress = p]
          IN  IF Job_updateProgressOk(job, p)
              THEN Returned("updateProgress", args, Job_updateProgress(job, p))
              ELSE Threw("updateProgress", args)
    /\ UNCHANGED <<impl, outsideJob>>

EntComplete ==
    /\ impl = "entity"
    /\ \E r \in ResultInputs :
          LET args == [NoArgs EXCEPT !.result = r]
          IN  IF Job_completeOk(job)
              THEN Returned("complete", args, Job_complete(job, r))
              ELSE Threw("complete", args)
    /\ UNCHANGED <<impl, outsideJob>>

EntFail ==
    /\ impl = "entity"
    /\ \E e \in ErrorInputs :
          LET args == [NoArgs EXCEPT !.error = Some(e)]
          IN  IF Job_failOk(job)
              THEN Returned("fail", args, Job_fail(job, e))
              ELSE Threw("fail", args)
    /\ UNCHANGED <<impl, outsideJob>>

EntCancel ==
    /\ impl = "entity"
    /\ \E e \in {None} \cup {Some(m) : m \in ErrorInputs} :
          LET args == [NoArgs EXCEPT !.error = e]
          IN  IF Job_cancelOk(job)
              THEN Returned("cancel", args, Job_cancel(job, e))
              ELSE Threw("cancel", args)
    /\ UNCHANGED <<impl, outsideJob>>

EntRetry ==
    /\ impl = "entity"
    /\ IF Job_retryOk(job)
       THEN Returned("retry", NoArgs, Job_retry(job))
       ELSE Threw("retry", NoArgs)
    /\ UNCHANGED <<impl, outsideJob>>

NextJob ==
    \/ SvcStart
    \/ SvcUpdateProgress
    \/ SvcComplete
    \/ SvcFail
    \/ SvcCancel
    \/ SvcRetry
    \/ EntStart
    \/ EntUpdateProgress
    \/ EntComplete
    \/ EntFail
    \/ EntCancel
    \/ EntRetry

InitClock == now = 1

\* the parts of the state a scenario does not use
NoSaves == saves = 0
NoStore == store = <<>> /\ NoSaves
NoDeadLetters == deadLetters = <<>>
NoProcs == procs = <<>>
NoRun == run = <<>>
NoIndex == schema = "none"
NoSnapshot == job = <<>> /\ prevJob = <<>> /\ lastOp = <<>>
NoJob == impl = "service" /\ NoSnapshot
NoDocuments == documents = <<>>

JobStart == InitClock /\ NoIndex /\ InitJob /\ NoStore /\ NoDeadLetters /\ NoProcs /\ NoRun /\ NoDocuments

SpecJob == JobStart /\ [][NextJob]_vars

(***************************************************************************)
(* Properties of the snapshot scenario.                                    *)
(***************************************************************************)
Mutators == {"start", "complete", "fail", "cancel", "retry"}

\* the status a mutator produces
MutatorTarget(op) ==
    CASE op = "start" -> RUNNING
      [] op = "complete" -> COMPLETED
      [] op = "fail" -> FAILED
      [] op = "cancel" -> CANCELLED
      [] op = "retry" -> RETRYING

\* the edges of the transition table
TableEdges ==
    {<<PENDING, RUNNING>>, <<PENDING, CANCELLED>>,
     <<RUNNING, COMPLETED>>, <<RUNNING, FAILED>>, <<RUNNING, CANCELLED>>,
     <<RETRYING, RUNNING>>, <<RETRYING, CANCELLED>>, <<RETRYING, DEAD_LETTER>>,
     <<FAILED, RETRYING>>, <<FAILED, DEAD_LETTER>>}

\* the attempts a job has counted: attemptCount, or retryCount in the entity
Attempts(j) == IF impl = "service" THEN j.attemptCount ELSE j.retryCount

\* C1: transition closure.  A ProcessingJobService mutator applied to a job
\* whose status has no table edge to the mutator's target status throws, and
\* every status change a returning mutator makes is a table edge.
C1_TransitionClosure ==
    (impl = "service" /\ lastOp.op \in Mutators) =>
        /\ (<<prevJob.status, MutatorTarget(lastOp.op)>> \notin TableEdges) => ~lastOp.ok
        /\ (lastOp.ok /\ job.status # prevJob.status) => <<prevJob.status, job.status>> \in TableEdges

\* C9: start succeeds exactly from PENDING or RETRYING; the snapshot it
\* returns is RUNNING with one more attempt counted, startedAt set, and the
\* same id, documentId, jobType and jobDetails (and checkpoints); from any
\* other status it throws.  Stated of both implementations of start.
C9_StartContract ==
    lastOp.op = "start" =>
        /\ lastOp.ok <=> prevJob.status \in {PENDING, RETRYING}
        /\ lastOp.ok =>
              /\ job.status = RUNNING
              /\ Attempts(job) = Attempts(prevJob) + 1
              /\ job.startedAt # None
              /\ job.id = prevJob.id
              /\ job.documentId = prevJob.documentId
              /\ job.jobType = prevJob.jobType
              /\ job.jobDetails = prevJob.jobDetails
              /\ impl = "service" =>
                    /\ job.lastProcessedChunkIndex = prevJob.lastProcessedChunkIndex
                    /\ job.processedChunksCount = prevJob.processedChunksCount
                    /\ job.processedEmbeddingsCount = prevJob.processedEmbeddingsCount

MaxCalls == 2           \* updateStatus calls explored per caller

Callers == {"c1", "c2"}
JobIdInputs == {"j1", "j0"}
Hash == "h1"

\* JavaScript truthiness of an optional string
Truthy(s) == s # None /\ s[1] # ""

\* PrismaProcessingJobRepositoryAdapter.mapToEntity
MapToEntity(row) == row

\* PrismaProcessingJobRepositoryAdapter.findById
FindById(id) == IF id \in DOMAIN store THEN Some(MapToEntity(store[id])) ELSE None

\* the table after an upsert of the row under its id
Upsert(table, row) == [i \in DOMAIN table \cup {row.id} |-> IF i = row.id THEN row ELSE table[i]]

\* a validation that only looks for the job
UpdateStatusValid_AnyTransition(currentJob, newStatus) == currentJob # None

\* updateStatus, the validation after the read: the job exists and the
\* transition is in the table
UpdateStatusValid(currentJob, newStatus) ==
    /\ currentJob # None
    /\ CanTransitionTo(currentJob[1].status, newStatus)

\* updateStatus, the row after prisma.processingJob.update with updateData
UpdateStatusRow(row, newStatus, errorMessage) ==
    [row EXCEPT
        !.status = newStatus,
        !.updatedAt = now,
        !.errorMessage = IF Truthy(errorMessage) THEN errorMessage ELSE @,
        !.startedAt = IF newStatus = RUNNING THEN Some(now) ELSE @,
        !.attemptCount = IF newStatus = RUNNING THEN @ + 1 ELSE @,
        !.completedAt = IF newStatus \in {COMPLETED, FAILED, CANCELLED} THEN Some(now) ELSE @,
        !.progress = IF newStatus = COMPLETED THEN 100 ELSE @]

\* a caller that is not inside a call
IdleProc == [pc |-> "idle", calls |-> 0, jobId |-> "j1", newStatus |-> PENDING, errorMessage |-> None, currentJob |-> None, result |-> None]

InitRepo ==
    /\ \E d \in DocumentIds, t \in ProcessingType :
          store = [i \in {"j1"} |-> Create("j1", d, t, [contentHash |-> Some(Hash)])]
    /\ saves = 0
    /\ procs = [c \in Callers |-> IdleProc]

\* updateStatus up to and including the validation: findById, then return
\* null when the job is missing or the transition is not allowed
US_Read(c) ==
    /\ procs[c].pc \in {"idle", "done"}
    /\ procs[c].calls < MaxCalls
    /\ \E jobId \in JobIdInputs, newStatus \in ProcessingStatus, errorMessage \in {None, Some("boom")} :
          LET currentJob == FindById(jobId)
              call == [procs[c] EXCEPT !.calls = @ + 1, !.jobId = jobId, !.newStatus = newStatus,
                                       !.errorMessage = errorMessage, !.currentJob = currentJob, !.result = None]
          IN  procs' = [procs EXCEPT ![c] =
                  IF UpdateStatusValid(currentJob, newStatus)
                  THEN [call EXCEPT !.pc = "write"]
                  ELSE [call EXCEPT !.pc = "done"]]
    /\ UNCHANGED <<store, outsideRepo>>

\* updateStatus from the update on: write updateData to the row and return
\* the mapped row; an update of a missing row throws and null is returned
US_Write(c) ==
    /\ procs[c].pc = "write"
    /\ LET p == procs[c] IN
          IF p.jobId \in DOMAIN store
          THEN LET updatedJob == UpdateStatusRow(store[p.jobId], p.newStatus, p.errorMessage) IN
                  /\ store' = [store EXCEPT ![p.jobId] = updatedJob]
                  /\ procs' = [procs EXCEPT ![c] = [p EXCEPT !.pc = "done", !.result = Some(MapToEntity(updatedJob))]]
          ELSE /\ store' = store
               /\ procs' = [procs EXCEPT ![c] = [p EXCEPT !.pc = "done", !.result = None]]
    /\ UNCHANGED outsideRepo

NextRepo ==
    \/ \E c \in Callers : US_Read(c)
    \/ \E c \in Callers : US_Write(c)

RepoStart == InitClock /\ NoIndex /\ InitRepo /\ NoJob /\ NoDeadLetters /\ NoRun /\ NoDocuments

SpecRepo == RepoStart /\ [][NextRepo]_vars

\* two calls that were validated against the same stored state of one job
SameRead(c, d) ==
    /\ c # d
    /\ procs[c].pc = "done"
    /\ procs[d].pc = "done"
    /\ procs[c].jobId = procs[d].jobId
    /\ procs[c].currentJob = procs[d].currentJob
    /\ UpdateStatusValid(procs[c].currentJob, procs[c].newStatus)
    /\ UpdateStatusValid(procs[d].currentJob, procs[d].newStatus)

\* C5: atomic status transition.  Of two updateStatus calls on one job whose
\* targets are both legal from the state both calls saw, at most one returns
\* a job, and the stored job shows one transition from that state: when the
\* winner's target is RUNNING, attemptCount is the old count plus 1.
C5_AtomicStatusTransition ==
    \A c, d \in Callers :
        SameRead(c, d) =>
            /\ ~(procs[c].result # None /\ procs[d].result # None)
            /\ (procs[c].newStatus = RUNNING /\ procs[d].newStatus = RUNNING)
                  => store[procs[c].jobId].attemptCount = procs[c].currentJob[1].attemptCount + 1

(***************************************************************************)
(* The job repositories over the ProcessingJob table in the entity's       *)
(* shape (retryCount, parentJobId): PrismaProcessingJobRepository and the  *)
(* PrismaProcessingJobRepositoryAdapter that keeps the extra fields inside *)
(* jobDetails.  A row has the columns of the table.                        *)
(***************************************************************************)
MaxJobs == 2            \* jobs stored in the deduplication scenario
MaxTime == 2            \* clock values explored in the deduplication scenario

HashInputs == {None, Some("h1"), Some("h2")}

\* the jobDetails column written by both save methods
StoredDetails(j) ==
    [j.jobDetails EXCEPT !.progressMessage = j.progressMessage,
                         !.retryCount = Some(j.retryCount),
                         !.parentJobId = j.parentJobId]

\* PrismaProcessingJobRepositoryAdapter.toDatabase
Adapter_toDatabase(j) ==
    [id |-> j.id, documentId |-> j.documentId, jobType |-> j.jobType,
     status |-> j.status, errorMessage |-> j.errorMessage, progress |-> j.progress,
     jobDetails |-> StoredDetails(j), result |-> j.result,
     startedAt |-> j.startedAt, completedAt |-> j.completedAt, createdAt |-> j.createdAt]

\* PrismaProcessingJobRepositoryAdapter.toDomain
Adapter_toDomain(data) ==
    Job(data.id, data.documentId, data.jobType, data.status, data.progress, data.errorMessage, data.jobDetails, data.result, data.startedAt, data.completedAt, Some(data.createdAt), data.jobDetails.progressMessage, Some(OrElse(data.jobDetails.retryCount, 0)), data.jobDetails.parentJobId)

\* PrismaProcessingJobRepository.mapToEntity: progressMessage, retryCount and
\* parentJobId are read from columns the row does not have
Repository_mapToEntity(prismaJob) ==
    Job(prismaJob.id, prismaJob.documentId, prismaJob.jobType, prismaJob.status, prismaJob.progress, prismaJob.errorMessage, prismaJob.jobDetails, prismaJob.result, prismaJob.startedAt, prismaJob.completedAt, Some(prismaJob.createdAt), None, None, None)

\* PrismaProcessingJobRepositoryAdapter.save: upsert of toDatabase(job)
Adapter_save(table, j) == Upsert(table, Adapter_toDatabase(j))

\* PrismaProcessingJobRepository.save: the update branch of the upsert leaves
\* id, documentId, jobType and createdAt as stored
Repository_save(table, j) ==
    IF j.id \in DOMAIN table
    THEN [table EXCEPT ![j.id] =
            [@ EXCEPT !.status = j.status, !.progress = j.progress,
                      !.errorMessage = j.errorMessage, !.result = j.result,
                      !.startedAt = j.startedAt, !.completedAt = j.completedAt,
                      !.jobDetails = StoredDetails(j)]]
    ELSE Upsert(table, Adapter_toDatabase(j))

\* a status list without COMPLETED
DuplicateStatuses_NoCompleted == {RUNNING}

\* the status list of PrismaProcessingJobRepository.findDuplicateJobs
Repository_duplicateStatuses == {COMPLETED, RUNNING}

\* the status list of PrismaProcessingJobRepositoryAdapter.findDuplicateJobs;
\* IN_PROGRESS is not a status any job takes
Adapter_duplicateStatuses == {PENDING, "IN_PROGRESS", COMPLETED}

\* the rows selected by the WHERE clause of findDuplicateJobs
DuplicateRows(table, statuses, documentId, jobType, contentHash) ==
    {table[i] : i \in {k \in DOMAIN table :
        /\ table[k].documentId = documentId
        /\ table[k].jobType = jobType
        /\ table[k].status \in statuses
        /\ table[k].jobDetails.contentHash = Some(contentHash)}}

\* PrismaProcessingJobRepository.findDuplicateJobs
Repository_findDuplicateJobs(table, documentId, jobType, contentHash) ==
    {Repository_mapToEntity(r) : r \in DuplicateRows(table, Repository_duplicateStatuses, documentId, jobType, contentHash)}

\* PrismaProcessingJobRepositoryAdapter.findDuplicateJobs
Adapter_findDuplicateJobs(table, documentId, jobType, contentHash) ==
    {Adapter_toDomain(r) : r \in DuplicateRows(table, Adapter_duplicateStatuses, documentId, jobType, contentHash)}

\* the repository in use
Load(row) == IF impl = "repository" THEN Repository_mapToEntity(row) ELSE Adapter_toDomain(row)
Save(table, j) == IF impl = "repository" THEN Repository_save(table, j) ELSE Adapter_save(table, j)
FindDuplicateJobs(table, documentId, jobType, contentHash) ==
    IF impl = "repository"
    THEN Repository_findDuplicateJobs(table, documentId, jobType, contentHash)
    ELSE Adapter_findDuplicateJobs(table, documentId, jobType, contentHash)

\* ORDER BY "createdAt" DESC: the jobs that can come first in the result
Newest(jobs) == {j \in jobs : \A k \in jobs : k.createdAt <= j.createdAt}

(***************************************************************************)
(* The deduplication gate, createJobWithDeduplication, over one of the two *)
(* repositories, and single steps of a worker that move stored jobs on.    *)
(***************************************************************************)
\* an id no stored job has
FreshId(table) == StampedId("job", Cardinality(DOMAIN table) + 1)

NoCall == [op |-> "none"]

InitDedup ==
    /\ impl \in {"repository", "adapter"}
    /\ store = <<>>
    /\ saves = 0
    /\ lastOp = NoCall
    /\ job = <<>>
    /\ prevJob = <<>>

\* createJobWithDeduplication(documentId, jobType, {contentHash}): with a
\* hash, look for duplicates and return the first one found; otherwise, or
\* when none is found, create a PENDING job and save it
CreateJobWithDeduplication(documentId, jobType, contentHash) ==
    LET found == IF contentHash = None THEN {} ELSE FindDuplicateJobs(store, documentId, jobType, contentHash[1])
        call == [op |-> "createJobWithDeduplication", documentId |-> documentId, jobType |-> jobType,
                 contentHash |-> contentHash, created |-> FALSE,
                 repeated |-> /\ lastOp.op = "createJobWithDeduplication"
                              /\ lastOp.documentId = documentId
                              /\ lastOp.jobType = jobType
                              /\ lastOp.contentHash = contentHash]
    IN  IF found # {}
        THEN /\ \E existing \in Newest(found) :
                    /\ lastOp' = call
                    /\ job' = existing
             /\ UNCHANGED <<store, saves>>
        ELSE LET newJob == Job_create(FreshId(store), documentId, jobType, [NoDetails EXCEPT !.contentHash = contentHash])
                 table == Save(store, newJob)
             IN  /\ Cardinality(DOMAIN store) < MaxJobs
                 /\ store' = table
                 /\ saves' = saves + 1
                 /\ lastOp' = [call EXCEPT !.created = TRUE]
                 /\ job' = Load(table[newJob.id])

Dedup_Create ==
    /\ \E documentId \in DocumentIds, jobType \in ProcessingType, contentHash \in HashInputs :
          CreateJobWithDeduplication(documentId, jobType, contentHash)
    /\ UNCHANGED <<now, outsideDedup>>

\* a worker step: load the job, apply the mutator, save the snapshot
WorkStep(id, ok, next) ==
    /\ id \in DOMAIN store
    /\ ok
    /\ store' = Save(store, next)
    /\ lastOp' = [op |-> "work"]
    /\ job' = next
    /\ UNCHANGED <<now, saves, outsideDedup>>

Dedup_Start == \E id \in DOMAIN store : WorkStep(id, Job_startOk(Load(store[id])), Job_start(Load(store[id])))

Dedup_Complete == \E id \in DOMAIN store : WorkStep(id, Job_completeOk(Load(store[id])), Job_complete(Load(store[id]), None))

Dedup_Fail == \E id \in DOMAIN store : WorkStep(id, Job_failOk(Load(store[id])), Job_fail(Load(store[id]), "boom"))

\* the clock advances
Dedup_Tick ==
    /\ now < MaxTime
    /\ now' = now + 1
    /\ UNCHANGED <<store, saves, lastOp, job, outsideDedup>>

NextDedup ==
    \/ Dedup_Create
    \/ Dedup_Start
    \/ Dedup_Complete
    \/ Dedup_Fail
    \/ Dedup_Tick

DedupStart == InitClock /\ NoIndex /\ InitDedup /\ NoDeadLetters /\ NoProcs /\ NoRun /\ NoDocuments

SpecDedup == DedupStart /\ [][NextDedup]_vars

(***************************************************************************)
(* Properties of the deduplication gate.                                   *)
(***************************************************************************)
\* the statuses in which an existing job counts as a duplicate
DedupStatuses == {COMPLETED, RUNNING, PENDING}

\* the stored jobs a call with a hash must treat as duplicates
ExpectedDuplicates(documentId, jobType, contentHash) ==
    {Load(r) : r \in DuplicateRows(store, DedupStatuses, documentId, jobType, contentHash[1])}

\* a step of createJobWithDeduplication that was given a content hash
HashedCreate == Dedup_Create /\ lastOp'.contentHash # None

C7_FindDuplicateJobs ==
    [][HashedCreate
       => LET expected == ExpectedDuplicates(lastOp'.documentId, lastOp'.jobType, lastOp'.contentHash)
          IN  /\ FindDuplicateJobs(store, lastOp'.documentId, lastOp'.jobType, lastOp'.contentHash[1]) = expected
              /\ expected # {} => (~lastOp'.created /\ store' = store)]_vars

\* C8: when findDuplicateJobs returns nothing for the hash, the call creates
\* a job with status PENDING, the requested documentId and jobType and the
\* hash, stores it under a new id with one save, and changes no other row.
C8_CreateWhenNoDuplicate ==
    [][(/\ HashedCreate
        /\ FindDuplicateJobs(store, lastOp'.documentId, lastOp'.jobType, lastOp'.contentHash[1]) = {})
       => /\ lastOp'.created
          /\ job'.status = PENDING
          /\ job'.documentId = lastOp'.documentId
          /\ job'.jobType = lastOp'.jobType
          /\ job'.jobDetails.contentHash = lastOp'.contentHash
          /\ saves' = saves + 1
          /\ job'.id \notin DOMAIN store
          /\ DOMAIN store' = DOMAIN store \cup {job'.id}
          /\ \A i \in DOMAIN store : store'[i] = store[i]
          /\ Load(store'[job'.id]) = job']_vars

\* C8 witness: a call with a hash created a second job beside a stored one.
C8_Witness ==
    /\ lastOp.op = "createJobWithDeduplication"
    /\ lastOp.contentHash # None
    /\ lastOp.created
    /\ job.status = PENDING
    /\ Cardinality(DOMAIN store) = 2
    /\ saves = 2

(***************************************************************************)
(* Retry policy, dead-letter sink and the three ways a failing job is      *)
(* driven to its final disposition: the executeWithRetry loop, the loop of *)
(* the retry test, and DeadLetterQueueService over the repository.         *)
(***************************************************************************)
\* RetryService.config
initialDelay == 1000
maxDelay == 30000
backoffFactor == 2
maxAttempts == 3

\* MAX_RETRIES of the retry test
MAX_RETRIES == 3

StageErrors == {"boom", "timeout"}

\* a shouldRetry that allows one attempt more
ShouldRetry_Inclusive(attemptCount) == attemptCount <= maxAttempts

\* RetryService.shouldRetry
ShouldRetry(attemptCount) == attemptCount < maxAttempts

\* RetryService.calculateDelay: initialDelay * backoffFactor^(attemptCount-1),
\* at most maxDelay (the power taken one higher and divided back, exact for
\* attemptCount >= 0)
CalculateDelay(attemptCount) ==
    Min((initialDelay * backoffFactor ^ attemptCount) \div backoffFactor, maxDelay)

\* DeadLetterRepository.save
DeadLetter_save(records, data) == Append(records, data)

\* the record both loops hand to the dead-letter sink
DeadLetterData(failed, attempts) ==
    [jobId |-> failed.id, documentId |-> failed.documentId, jobType |-> failed.jobType,
     payload |-> failed.jobDetails, errorMessage |-> failed.errorMessage, attempts |-> attempts]

\* updateStatus run without interruption: the table after it and its result
UpdateStatus(jobId, newStatus, errorMessage) ==
    IF UpdateStatusValid(FindById(jobId), newStatus) /\ jobId \in DOMAIN store
    THEN LET updatedJob == UpdateStatusRow(store[jobId], newStatus, errorMessage) IN
            [table |-> [store EXCEPT ![jobId] = updatedJob], result |-> Some(MapToEntity(updatedJob))]
    ELSE [table |-> store, result |-> None]

InitRetry ==
    \E path \in {"executeWithRetry", "retryTest", "deadLetterQueue"}, d \in DocumentIds, t \in ProcessingType :
        LET created == Create("j1", d, t, [contentHash |-> Some(Hash)]) IN
        /\ run = [path |-> path, pc |-> IF path = "retryTest" THEN "invoke" ELSE "start",
                  attempt |-> 0, handlerCalls |-> 0, failures |-> 0,
                  currentJob |-> created, threw |-> FALSE]
        /\ store = IF path = "deadLetterQueue" THEN [i \in {"j1"} |-> created] ELSE <<>>
        /\ saves = 0
        /\ deadLetters = <<>>

\* the loop stops with an exception
Throws == [run EXCEPT !.pc = "done", !.threw = TRUE]

\* executeWithRetry step 1: mark the job RUNNING
EWR_Start ==
    /\ run.path = "executeWithRetry"
    /\ run.pc = "start"
    /\ run' = IF StartOk(run.currentJob)
              THEN [run EXCEPT !.pc = "invoke", !.currentJob = Start(@)]
              ELSE Throws
    /\ UNCHANGED <<now, store, deadLetters, outsideRetry>>

\* executeWithRetry steps 2-3: the handler returns, the job is COMPLETED
EWR_HandlerReturns ==
    /\ run.path = "executeWithRetry"
    /\ run.pc = "invoke"
    /\ \E result \in ResultInputs :
          run' = [run EXCEPT !.pc = "done", !.handlerCalls = @ + 1, !.currentJob = Complete(@, result)]
    /\ UNCHANGED <<now, store, deadLetters, outsideRetry>>

\* executeWithRetry step 4: the handler throws; count the attempt, then
\* either FAILED -> RETRYING -> RUNNING and invoke again, or FAILED, one
\* dead-letter record, and return
EWR_HandlerThrows ==
    /\ run.path = "executeWithRetry"
    /\ run.pc = "invoke"
    /\ \E error \in StageErrors :
          LET attempt == run.attempt + 1
              failed == Fail(run.currentJob, error)
              counted == [run EXCEPT !.handlerCalls = @ + 1, !.failures = @ + 1, !.attempt = attempt]
          IN  IF ~FailOk(run.currentJob)
              THEN run' = Throws /\ deadLetters' = deadLetters
              ELSE IF ShouldRetry(attempt)
              THEN /\ run' = [counted EXCEPT !.currentJob = Start(Retry(failed))]
                   /\ deadLetters' = deadLetters
              ELSE /\ run' = [counted EXCEPT !.pc = "done", !.currentJob = failed]
                   /\ deadLetters' = DeadLetter_save(deadLetters, DeadLetterData(failed, attempt))
    /\ UNCHANGED <<now, store, outsideRetry>>

\* one iteration of the retry test's loop: the simulated worker failure,
\* then fail and retry, or fail and the dead-letter save on the last attempt
RT_Iteration ==
    /\ run.path = "retryTest"
    /\ run.pc = "invoke"
    /\ run.attempt < MAX_RETRIES
    /\ \E error \in StageErrors :
          LET attempt == run.attempt + 1
              counted == [run EXCEPT !.handlerCalls = @ + 1, !.failures = @ + 1, !.attempt = attempt]
          IN  IF ~FailOk(run.currentJob)
              THEN run' = Throws /\ deadLetters' = deadLetters
              ELSE LET failed == Fail(run.currentJob, error) IN
                   IF attempt < MAX_RETRIES
                   THEN /\ run' = IF RetryOk(failed) THEN [counted EXCEPT !.currentJob = Retry(failed)] ELSE Throws
                        /\ deadLetters' = deadLetters
                   ELSE /\ run' = [counted EXCEPT !.pc = "done", !.currentJob = failed]
                        /\ deadLetters' = DeadLetter_save(deadLetters, DeadLetterData(failed, attempt))
    /\ UNCHANGED <<now, store, outsideRetry>>


\* a worker marks the stored job RUNNING through the repository
Dlq_Start ==
    /\ run.path = "deadLetterQueue"
    /\ run.pc = "start"
    /\ LET u == UpdateStatus(run.currentJob.id, RUNNING, None) IN
          /\ store' = u.table
          /\ run' = IF u.result = None THEN Throws ELSE [run EXCEPT !.pc = "invoke", !.currentJob = u.result[1]]
    /\ UNCHANGED <<now, deadLetters, outsideRetry>>

\* the stage returns and the worker marks the stored job COMPLETED
Dlq_StageReturns ==
    /\ run.path = "deadLetterQueue"
    /\ run.pc = "invoke"
    /\ LET u == UpdateStatus(run.currentJob.id, COMPLETED, None) IN
          /\ store' = u.table
          /\ run' = IF u.result = None THEN Throws
                    ELSE [run EXCEPT !.pc = "done", !.handlerCalls = @ + 1, !.currentJob = u.result[1]]
    /\ UNCHANGED <<now, deadLetters, outsideRetry>>

\* the stage throws and the worker marks the stored job FAILED
Dlq_StageThrows ==
    /\ run.path = "deadLetterQueue"
    /\ run.pc = "invoke"
    /\ \E error \in StageErrors :
          LET u == UpdateStatus(run.currentJob.id, FAILED, Some(error)) IN
             /\ store' = u.table
             /\ run' = IF u.result = None THEN Throws
                       ELSE [run EXCEPT !.pc = "failed", !.handlerCalls = @ + 1, !.failures = @ + 1,
                                        !.attempt = u.result[1].attemptCount, !.currentJob = u.result[1]]
    /\ UNCHANGED <<now, deadLetters, outsideRetry>>

\* DeadLetterQueueService.handleFailedJob(job, error) with the failed job:
\* moveToDeadLetterQueue when shouldRetry(job.attemptCount) is false,
\* otherwise the backoff delay and retryJob; either throws when updateStatus
\* returns null
Dlq_HandleFailedJob ==
    /\ run.path = "deadLetterQueue"
    /\ run.pc = "failed"
    /\ LET failedJob == run.currentJob IN
          IF ~ShouldRetry(failedJob.attemptCount)
          THEN LET u == UpdateStatus(failedJob.id, DEAD_LETTER, failedJob.errorMessage) IN
                  /\ store' = u.table
                  /\ run' = IF u.result = None THEN Throws ELSE [run EXCEPT !.pc = "done", !.currentJob = u.result[1]]
                  /\ now' = now
          ELSE /\ now' = now + CalculateDelay(failedJob.attemptCount)
               /\ LET u == UpdateStatus(failedJob.id, RETRYING, None) IN
                     /\ store' = u.table
                     /\ run' = IF u.result = None THEN Throws ELSE [run EXCEPT !.pc = "start", !.currentJob = u.result[1]]
    /\ UNCHANGED <<deadLetters, outsideRetry>>

NextRetry ==
    \/ EWR_Start
    \/ EWR_HandlerReturns
    \/ EWR_HandlerThrows
    \/ RT_Iteration
    \/ Dlq_Start
    \/ Dlq_StageReturns
    \/ Dlq_StageThrows
    \/ Dlq_HandleFailedJob

RetryStart == InitClock /\ NoIndex /\ InitRetry /\ NoJob /\ NoProcs /\ NoDocuments

SpecRetry == RetryStart /\ [][NextRetry]_vars

(***************************************************************************)
(* Properties of the retry scenario.                                       *)
(***************************************************************************)
\* the run is over and every invocation of the stage handler threw
AlwaysThrew == run.pc = "done" /\ run.handlerCalls = run.failures

\* the status the job is left in: the stored one where there is a table
FinalStatus == IF run.path = "deadLetterQueue" THEN store["j1"].status ELSE run.currentJob.status

\* C2: retry exhaustion.  When the stage handler throws on every invocation,
\* the retry loop invokes it exactly maxAttempts times, saves exactly one
\* dead-letter record, carrying the job's id and documentId and
\* attempts = maxAttempts, and returns without an exception; until then it
\* has saved no record and not invoked the handler more often than that.
C2_RetryExhaustion ==
    run.path \in {"executeWithRetry", "retryTest"} =>
        /\ run.handlerCalls <= maxAttempts
        /\ run.pc # "done" => deadLetters = <<>>
        /\ AlwaysThrew =>
              /\ run.handlerCalls = maxAttempts
              /\ Len(deadLetters) = 1
              /\ deadLetters[1].jobId = "j1"
              /\ deadLetters[1].documentId = run.currentJob.documentId
              /\ deadLetters[1].attempts = maxAttempts
              /\ ~run.threw

\* C2 witness: executeWithRetry returned after its handler threw each time.
C2_Witness ==
    /\ run.path = "executeWithRetry"
    /\ AlwaysThrew
    /\ run.handlerCalls = maxAttempts
    /\ Len(deadLetters) = 1

MaxRequests == 2        \* processDocument and retryJob calls explored in all

FULL_PROCESSING == "FULL_PROCESSING"

\* the unique indexes the migrations give the table at one time or another
Schemas == {"none", "documentId_jobType_status", "documentId_jobType"}

\* the status list of PrismaProcessingJobRepository.findActiveByDocument
Repository_activeStatuses == {PENDING, RUNNING, RETRYING}

\* the status list of PrismaProcessingJobRepositoryAdapter.findActiveByDocument
Adapter_activeStatuses == {PENDING, "IN_PROGRESS", RETRYING}

\* findActiveByDocument of the repository in use
FindActiveByDocument(table, documentId) ==
    LET statuses == IF impl = "repository" THEN Repository_activeStatuses ELSE Adapter_activeStatuses
    IN  {Load(table[i]) : i \in {k \in DOMAIN table : table[k].documentId = documentId /\ table[k].status \in statuses}}

\* the row stored under id would break the table's unique index
IndexConflict(table, id) ==
    \E k \in DOMAIN table \ {id} :
        /\ schema # "none"
        /\ table[k].documentId = table[id].documentId
        /\ table[k].jobType = table[id].jobType
        /\ schema = "documentId_jobType_status" => table[k].status = table[id].status

\* save against the index: the upsert throws when the row would break it
SaveChecked(table, j) ==
    LET saved == Save(table, j) IN
    IF IndexConflict(saved, j.id) THEN [ok |-> FALSE, table |-> table] ELSE [ok |-> TRUE, table |-> saved]

\* the document documentRepository.findById returns, as far as the
\* processing looks at it: whether it has extractedText and a textHash
Documents ==
    {[extractedText |-> FALSE, textHash |-> FALSE],
     [extractedText |-> TRUE, textHash |-> FALSE],
     [extractedText |-> TRUE, textHash |-> TRUE]}

NoDocument == [extractedText |-> FALSE, textHash |-> FALSE]

\* the Document table before any processing: every document as uploaded
InitDocuments == documents = [d \in DocumentIds |-> "UPLOADED"]

\* a test that never asks for the extraction
NeedsExtraction_Never(document, replaceResults) == FALSE

\* executeProcessing's test before extractText
NeedsExtraction(document, replaceResults) ==
    ~document.extractedText \/ ~document.textHash \/ replaceResults

\* a caller outside any call
IdleWorker == [pc |-> "idle", calls |-> 0, op |-> "none", documentId |-> "d1", document |-> NoDocument, replaceResults |-> FALSE, job |-> None, param |-> None, currentJob |-> None, threw |-> FALSE, stageError |-> None]

InitProc ==
    /\ impl \in {"repository", "adapter"}
    /\ schema \in Schemas
    /\ store = <<>>
    /\ procs = [c \in Callers |-> IdleWorker]

\* the calls made so far
Requests == procs["c1"].calls + procs["c2"].calls

\* the call ends with an exception
Thrown(c) == [procs[c] EXCEPT !.pc = "done", !.threw = TRUE, !.document = NoDocument, !.replaceResults = FALSE, !.job = None, !.param = None, !.currentJob = None]

\* the call returns the job given, its locals gone
ReturnedJob(c, j) == [procs[c] EXCEPT !.pc = "done", !.document = NoDocument, !.replaceResults = FALSE, !.job = None, !.param = None, !.currentJob = j]

\* a catch block, save(job.fail(message)) on the table given: the call
\* returns the FAILED job, or throws when fail or the save throws;
\* stageError is the message a stage collaborator threw, if the catch was
\* entered that way
Catch(c, table, failJob, message, stageError) ==
    LET s == SaveChecked(table, Job_fail(failJob, message)) IN
    IF Job_failOk(failJob) /\ s.ok
    THEN /\ store' = s.table
         /\ procs' = [procs EXCEPT ![c] = [ReturnedJob(c, Some(Load(s.table[failJob.id]))) EXCEPT !.stageError = stageError]]
    ELSE /\ store' = table
         /\ procs' = [procs EXCEPT ![c] = [Thrown(c) EXCEPT !.stageError = stageError]]

\* the catch entered by an exception of the job repository
CatchSave(c, table, failJob, message) == Catch(c, table, failJob, message, None)

\* the catch entered by an exception of a stage collaborator
CatchStage(c, table, failJob, message) == Catch(c, table, failJob, message, Some(message))

\* save(next) inside a try block whose catch is save(failJob.fail(message));
\* base is the caller's record before the save, stageEnds says that the job
\* saved is handed to the next stage
TrySave(c, base, table, failJob, next, pcNext, stageEnds) ==
    LET s == SaveChecked(table, next) IN
    IF s.ok
    THEN LET saved == Some(Load(s.table[next.id])) IN
         /\ store' = s.table
         /\ procs' = [procs EXCEPT ![c] =
                IF pcNext = "done"
                THEN ReturnedJob(c, saved)
                ELSE [base EXCEPT !.pc = pcNext, !.currentJob = saved, !.param = IF stageEnds THEN saved ELSE @]]
    ELSE CatchSave(c, table, failJob, "save failed")

\* processDocument up to the active-job check: the document is found, then
\* throw when it has active jobs and replaceExisting is not set
PD_Check(c) ==
    /\ procs[c].pc \in {"idle", "done"}
    /\ Requests < MaxRequests
    /\ \E documentId \in DocumentIds, document \in Documents, replaceExisting \in BOOLEAN, replaceResults \in BOOLEAN :
          LET activeJobs == FindActiveByDocument(store, documentId)
              call == [IdleWorker EXCEPT !.calls = procs[c].calls + 1, !.op = "processDocument", !.documentId = documentId,
                                         !.document = document, !.replaceResults = replaceResults]
          IN  procs' = [procs EXCEPT ![c] =
                  IF activeJobs # {} /\ ~replaceExisting
                  THEN [call EXCEPT !.pc = "done", !.threw = TRUE]
                  ELSE [call EXCEPT !.pc = "create"]]
    /\ UNCHANGED <<now, impl, schema, store, outsideProc>>

\* processDocument: create the job job-<now> and save it
PD_Create(c) ==
    /\ procs[c].pc = "create"
    /\ LET newJob == Job_create(StampedId("job", now), procs[c].documentId, FULL_PROCESSING, NoDetails)
           s == SaveChecked(store, newJob)
       IN  IF s.ok
           THEN /\ store' = s.table
                /\ procs' = [procs EXCEPT ![c] = [@ EXCEPT !.pc = "execute", !.job = Some(Load(s.table[newJob.id]))]]
           ELSE /\ store' = store
                /\ procs' = [procs EXCEPT ![c] = Thrown(c)]
    /\ UNCHANGED <<now, impl, schema, outsideProc>>


\* new ProcessingJob(...) as extractText builds it: RUNNING with the progress
\* and message given, the last three constructor arguments left out
ExtractingJob(j, progress, message) ==
    Job(j.id, j.documentId, j.jobType, RUNNING, progress, None, [j.jobDetails EXCEPT !.progressMessage = Some(message)], j.result, j.startedAt, None, Some(j.createdAt), None, None, None)

\* executeProcessing: save(job), then either extractText up to its first
\* save (RUNNING, progress 10) or, when the document has its text and hash
\* already and replaceResults is not set, on to processChunks with the job
\* as saved
EX_Begin(c) ==
    /\ procs[c].pc = "execute"
    /\ LET j == procs[c].job[1]
           s == SaveChecked(store, j)
       IN  IF ~s.ok
           THEN CatchSave(c, store, j, "save failed")
           ELSE LET currentJob == Load(s.table[j.id])
                    base == [procs[c] EXCEPT !.param = Some(currentJob), !.currentJob = Some(currentJob)]
                    needsExtraction == NeedsExtraction(procs[c].document, procs[c].replaceResults)
                IN     IF needsExtraction
                       THEN TrySave(c, base, s.table, currentJob, ExtractingJob(currentJob, 10, "Extracting text..."), "extracting", FALSE)
                       ELSE /\ store' = s.table
                            /\ procs' = [procs EXCEPT ![c] = [base EXCEPT !.pc = "chunking"]]
    /\ UNCHANGED <<now, impl, schema, outsideProc>>

\* extractText from the extraction on: the text is extracted and the job
\* saved with progress 30, or the extraction throws and the job is failed
EX_Extracted(c) ==
    /\ procs[c].pc = "extracting"
    /\ LET param == procs[c].param[1]
           currentJob == procs[c].currentJob[1]
       IN  \E extracted \in BOOLEAN :
              IF extracted
              THEN TrySave(c, procs[c], store, param, ExtractingJob(currentJob, 30, "Text extraction completed"), "chunking", TRUE)
              ELSE CatchStage(c, store, param, "boom")
    /\ UNCHANGED <<now, impl, schema, outsideProc>>

\* what the collaborator of a stage does: it returns a good result, returns
\* an error result, or throws
StageOutcomes == {"ok", "error", "throws"}

\* a stage of the shape of processChunks and generateEmbeddings: progress
\* to begin, save, run the stage when it can run, then either fail the job
\* or save it with progress end; anything thrown fails the job the stage
\* was given
Stage(c, begin, beginMessage, canRun, end, endMessage, pcNext) ==
    LET param == procs[c].param[1] IN
    IF ~Job_updateProgressOk(param, begin)
    THEN CatchSave(c, store, param, "Cannot update progress")
    ELSE LET started == Job_withProgressMessage(Job_updateProgress(param, begin), beginMessage)
             s == SaveChecked(store, started)
         IN  IF ~s.ok
             THEN CatchSave(c, store, param, "save failed")
             ELSE LET currentJob == Load(s.table[started.id]) IN
                  IF ~canRun
                  THEN TrySave(c, procs[c], s.table, param, Job_fail(currentJob, "Document has no extracted text to process"), "done", TRUE)
                  ELSE \E outcome \in StageOutcomes :
                          CASE outcome = "ok" -> TrySave(c, procs[c], s.table, param, Job_withProgressMessage(Job_updateProgress(currentJob, end), endMessage), pcNext, TRUE)
                            [] outcome = "error" -> TrySave(c, procs[c], s.table, param, Job_fail(currentJob, "stage error"), "done", TRUE)
                            [] outcome = "throws" -> CatchStage(c, s.table, param, "boom")

\* processChunks: the stage runs when the document the call was given has
\* extractedText
EX_Chunk(c) ==
    /\ procs[c].pc = "chunking"
    /\ Stage(c, 40, "Processing chunks...", procs[c].document.extractedText, 60, "Chunk processing completed", "embedding")
    /\ UNCHANGED <<now, impl, schema, outsideProc>>

\* generateEmbeddings
EX_Embed(c) ==
    /\ procs[c].pc = "embedding"
    /\ Stage(c, 70, "Generating embeddings...", TRUE, 90, "Embedding generation completed", "completing")
    /\ UNCHANGED <<now, impl, schema, outsideProc>>

\* executeProcessing after the stages: save the document with status
\* PROCESSED, then complete the job with its processing time,
\* now - currentJob.startedAt.getTime(), which throws when startedAt is not
\* set; the catch fails the job executeProcessing was given
EX_Complete(c) ==
    /\ procs[c].pc = "completing"
    /\ LET j == procs[c].job[1]
           currentJob == procs[c].currentJob[1]
       IN  \E saved \in BOOLEAN :
              IF ~saved
              THEN /\ documents' = documents
                   /\ CatchSave(c, store, j, "document save failed")
              ELSE /\ documents' = [documents EXCEPT ![procs[c].documentId] = "PROCESSED"]
                   /\ IF currentJob.startedAt = None \/ ~Job_completeOk(currentJob)
                      THEN CatchSave(c, store, j, "TypeError")
                      ELSE TrySave(c, procs[c], store, j, Job_complete(currentJob, Some("processed")), "done", TRUE)
    /\ UNCHANGED <<now, impl, schema, job, prevJob, lastOp, saves, deadLetters, run>>

\* an id no job is stored under
Nonexistent == LitId("nonexistent")

\* retryJob up to the checks, as one of at most `limit` calls: the call
\* throws unless the job is found and is FAILED with jobDetails.retryCount
\* below 3
RJ_FindWithin(c, limit) ==
    /\ procs[c].pc \in {"idle", "done"}
    /\ Requests < limit
    /\ \E jobId \in DOMAIN store \cup {Nonexistent}, document \in Documents :
          LET found == jobId \in DOMAIN store
              j == Load(store[jobId])
              call == [IdleWorker EXCEPT !.calls = procs[c].calls + 1, !.op = "retryJob"]
          IN  procs' = [procs EXCEPT ![c] =
                  IF ~found
                  THEN [call EXCEPT !.pc = "done", !.threw = TRUE]
                  ELSE IF j.status # FAILED \/ OrElse(j.jobDetails.retryCount, 0) >= 3
                  THEN [call EXCEPT !.pc = "done", !.threw = TRUE, !.documentId = j.documentId]
                  ELSE [call EXCEPT !.pc = "retryCreate", !.param = Some(j), !.documentId = j.documentId, !.document = document]]
    /\ UNCHANGED <<now, impl, schema, store, outsideProc>>

RJ_Find(c) == RJ_FindWithin(c, MaxRequests)

\* retryJob: build the PENDING job retry-<id>-<now> and save it
RJ_Create(c) ==
    /\ procs[c].pc = "retryCreate"
    /\ LET j == procs[c].param[1]
           retryJob == Job(RetryId(j.id, now), j.documentId, j.jobType, PENDING, 0, None, [j.jobDetails EXCEPT !.originalJobId = Some(j.id), !.retryCount = Some(OrElse(@, 0) + 1)], None, None, None, Some(now), None, None, None)
           s == SaveChecked(store, retryJob)
       IN  IF s.ok
           THEN /\ store' = s.table
                /\ procs' = [procs EXCEPT ![c] = [@ EXCEPT !.pc = "execute", !.job = Some(Load(s.table[retryJob.id])), !.param = None]]
           ELSE /\ store' = store
                /\ procs' = [procs EXCEPT ![c] = Thrown(c)]
    /\ UNCHANGED <<now, impl, schema, outsideProc>>

\* the optional reason given to cancelJob
CancelReasons == {None, Some("stop")}

\* cancelJob up to the check: the job is found, and the call throws when its
\* status is COMPLETED, FAILED or CANCELLED
CJ_Find(c) ==
    /\ procs[c].pc \in {"idle", "done"}
    /\ Requests < MaxRequests
    /\ \E jobId \in DOMAIN store :
          LET j == Load(store[jobId])
              call == [IdleWorker EXCEPT !.calls = procs[c].calls + 1, !.op = "cancelJob", !.documentId = j.documentId]
              isTerminal == j.status \in {COMPLETED, FAILED, CANCELLED}
          IN  procs' = [procs EXCEPT ![c] =
                  IF isTerminal
                  THEN [call EXCEPT !.pc = "done", !.threw = TRUE]
                  ELSE [call EXCEPT !.pc = "cancelling", !.param = Some(j)]]
    /\ UNCHANGED <<now, impl, schema, store, outsideProc>>

\* cancelJob: save the job read, rebuilt with status CANCELLED, the reason as
\* errorMessage and completedAt now
CJ_Save(c) ==
    /\ procs[c].pc = "cancelling"
    /\ \E reason \in CancelReasons :
          LET j == procs[c].param[1]
              cancelled == Job(j.id, j.documentId, j.jobType, CANCELLED, j.progress, reason, j.jobDetails, j.result, j.startedAt, Some(now), Some(j.createdAt), None, None, None)
              s == SaveChecked(store, cancelled)
          IN  IF s.ok
              THEN /\ store' = s.table
                   /\ procs' = [procs EXCEPT ![c] = ReturnedJob(c, None)]
              ELSE /\ store' = store
                   /\ procs' = [procs EXCEPT ![c] = Thrown(c)]
    /\ UNCHANGED <<now, impl, schema, outsideProc>>

\* the clock advances
Proc_Tick ==
    /\ now < MaxTime
    /\ now' = now + 1
    /\ UNCHANGED <<impl, schema, store, procs, outsideProc>>

NextProc ==
    \/ \E c \in Callers : PD_Check(c)
    \/ \E c \in Callers : PD_Create(c)
    \/ \E c \in Callers : EX_Begin(c)
    \/ \E c \in Callers : EX_Extracted(c)
    \/ \E c \in Callers : EX_Chunk(c)
    \/ \E c \in Callers : EX_Embed(c)
    \/ \E c \in Callers : EX_Complete(c)
    \/ \E c \in Callers : RJ_Find(c)
    \/ \E c \in Callers : RJ_Create(c)
    \/ \E c \in Callers : CJ_Find(c)
    \/ \E c \in Callers : CJ_Save(c)
    \/ Proc_Tick

ProcStart == InitClock /\ InitProc /\ NoSnapshot /\ NoSaves /\ NoDeadLetters /\ NoRun /\ InitDocuments

SpecProc == ProcStart /\ [][NextProc]_vars

\* the statuses in which a job is active
ActiveStatuses == {PENDING, RUNNING, RETRYING}

\* C4: at most one active job per (documentId, jobType).  In every reachable
\* state no two stored jobs with the same documentId and jobType are both in
\* an active status, however the creation requests were interleaved.
C4_OneActiveJob ==
    \A i, k \in DOMAIN store :
        (/\ i # k
         /\ store[i].documentId = store[k].documentId
         /\ store[i].jobType = store[k].jobType
         /\ store[i].status \in ActiveStatuses)
        => store[k].status \notin ActiveStatuses

(***************************************************************************)
(* Further properties of the snapshot scenario.                            *)
(***************************************************************************)
\* C11: attemptCount is bounded by the policy maximum.  In every state
\* reachable by create, start, fail, retry, complete and cancel, the job's
\* attemptCount is at most maxAttempts.
C11_AttemptCountBounded ==
    impl = "service" => job.attemptCount <= maxAttempts

\* C12: ProcessingJobService.retry on a FAILED job returns a snapshot with
\* the same id, status RETRYING, progress 0, errorMessage and result cleared,
\* and attemptCount, jobDetails, lastProcessedChunkIndex,
\* processedChunksCount and processedEmbeddingsCount unchanged.
C12_RetryEffect ==
    (impl = "service" /\ lastOp.op = "retry" /\ prevJob.status = FAILED) =>
        /\ lastOp.ok
        /\ job.id = prevJob.id
        /\ job.status = RETRYING
        /\ job.progress = 0
        /\ job.errorMessage = None
        /\ job.result = None
        /\ job.attemptCount = prevJob.attemptCount
        /\ job.jobDetails = prevJob.jobDetails
        /\ job.lastProcessedChunkIndex = prevJob.lastProcessedChunkIndex
        /\ job.processedChunksCount = prevJob.processedChunksCount
        /\ job.processedEmbeddingsCount = prevJob.processedEmbeddingsCount

\* C12 witness: retry returned for a FAILED job that had progress, an error
\* message and checkpoints recorded.
C12_Witness ==
    /\ impl = "service"
    /\ lastOp.op = "retry"
    /\ lastOp.ok
    /\ prevJob.status = FAILED
    /\ prevJob.progress = 40
    /\ prevJob.errorMessage = Some("boom")
    /\ prevJob.lastProcessedChunkIndex = Some(1)
    /\ prevJob.processedChunksCount = 1
    /\ prevJob.attemptCount = 2

(***************************************************************************)
(* The end-to-end scenario: one caller creates a job and applies the       *)
(* mutators start, fail("boom"), retry, start, complete(result) in that    *)
(* order, the clock advancing in between.  run.pos is the number of        *)
(* mutator calls made; a call that throws ends the scenario.               *)
(***************************************************************************)
Script == <<"start", "fail", "retry", "start", "complete">>

InitScenario ==
    /\ InitJob
    /\ run = [pos |-> 0, threw |-> FALSE]

\* the scenario is about to make the call Script[run.pos + 1]
AtStep(op) ==
    /\ ~run.threw
    /\ run.pos < Len(Script)
    /\ Script[run.pos + 1] = op

\* one call of the scenario: the mutator returned j, or threw
ScnCall(op, args, ok, j) ==
    /\ IF ok THEN Returned(op, args, j) ELSE Threw(op, args)
    /\ run' = [pos |-> run.pos + 1, threw |-> ~ok]
    /\ UNCHANGED <<now, impl, store, saves, deadLetters, procs, schema, documents>>

Scn_Start ==
    /\ AtStep("start")
    /\ IF impl = "service"
       THEN ScnCall("start", NoArgs, StartOk(job), Start(job))
       ELSE ScnCall("start", NoArgs, Job_startOk(job), Job_start(job))

Scn_Fail ==
    /\ AtStep("fail")
    /\ LET args == [NoArgs EXCEPT !.error = Some("boom")]
       IN  IF impl = "service"
           THEN ScnCall("fail", args, FailOk(job), Fail(job, "boom"))
           ELSE ScnCall("fail", args, Job_failOk(job), Job_fail(job, "boom"))

Scn_Retry ==
    /\ AtStep("retry")
    /\ IF impl = "service"
       THEN ScnCall("retry", NoArgs, RetryOk(job), Retry(job))
       ELSE ScnCall("retry", NoArgs, Job_retryOk(job), Job_retry(job))

Scn_Complete ==
    /\ AtStep("complete")
    /\ \E r \in ResultInputs :
          LET args == [NoArgs EXCEPT !.result = r]
          IN  IF impl = "service"
              THEN ScnCall("complete", args, CompleteOk(job), Complete(job, r))
              ELSE ScnCall("complete", args, Job_completeOk(job), Job_complete(job, r))

\* the clock advances between two calls
Scn_Tick ==
    /\ now < MaxTime
    /\ now' = now + 1
    /\ UNCHANGED <<jobVars, store, saves, deadLetters, procs, run, schema, documents>>

NextScenario ==
    \/ Scn_Start
    \/ Scn_Fail
    \/ Scn_Retry
    \/ Scn_Complete
    \/ Scn_Tick

ScenarioStart == InitClock /\ NoIndex /\ InitScenario /\ NoStore /\ NoDeadLetters /\ NoProcs /\ NoDocuments

SpecScenario == ScenarioStart /\ [][NextScenario]_vars

\* C13: the sequence create -> start -> fail("boom") -> retry -> start ->
\* complete(result) of ProcessingJobService succeeds at every step and ends
\* with status COMPLETED, attemptCount 2 and progress 100.
C13_EndToEnd ==
    impl = "service" =>
        /\ ~run.threw
        /\ run.pos = Len(Script) =>
              /\ job.status = COMPLETED
              /\ job.attemptCount = 2
              /\ job.progress = 100

\* C13 witness: the whole sequence has run on a ProcessingJobService snapshot
\* and the last call, complete, returned.
C13_Witness ==
    /\ impl = "service"
    /\ run.pos = Len(Script)
    /\ lastOp.op = "complete"
    /\ lastOp.ok
    /\ job.result = Some("text")

(***************************************************************************)
(* Further properties of the repository scenario.                          *)
(***************************************************************************)
\* the statuses from which the transition table has no edge
FinalStatuses == {COMPLETED, CANCELLED, DEAD_LETTER}

\* C14: terminal finality.  Once the stored status of a job is COMPLETED,
\* CANCELLED or DEAD_LETTER, no step of any operation changes it.
C14_TerminalFinality ==
    [][\A id \in DOMAIN store :
          store[id].status \in FinalStatuses => store'[id].status = store[id].status]_vars

\* C15: progress clamp.  updateProgress(job, p) on a RUNNING job returns for
\* every p and stores 0 when p < 0, 100 when p > 100 and p otherwise, and
\* the progress of a job is within [0, 100] in every reachable state.
\* Stated of both implementations of updateProgress.
C15_ProgressClamp ==
    /\ job.progress \in 0..100
    /\ (lastOp.op = "updateProgress" /\ prevJob.status = RUNNING) =>
          /\ lastOp.ok
          /\ job.progress = Max(0, Min(100, lastOp.args.progress))

(***************************************************************************)
(* The progress scenario: one caller at a time calls updateStatus and      *)
(* updateProgress of PrismaProcessingJobRepositoryAdapter on a table that  *)
(* holds one job.  prevJob is the row the call found, job what it returned.*)
(***************************************************************************)
MaxRuns == 2             \* changes to RUNNING explored in the progress scenario

\* updateProgress, the row after prisma.processingJob.update with updateData
UpdateProgressRow(row, progress, lastProcessedChunkIndex, processedChunksCount, processedEmbeddingsCount) ==
    LET validProgress == Max(0, Min(100, progress)) IN
    [row EXCEPT
        !.progress = validProgress,
        !.updatedAt = now,
        !.lastProcessedChunkIndex = IF lastProcessedChunkIndex # None THEN lastProcessedChunkIndex ELSE @,
        !.processedChunksCount = IF processedChunksCount # None THEN processedChunksCount[1] ELSE @,
        !.processedEmbeddingsCount = IF processedEmbeddingsCount # None THEN processedEmbeddingsCount[1] ELSE @]

\* PrismaProcessingJobRepositoryAdapter.updateProgress: the table after it
\* and its result; the update of a missing row throws and null is returned
Repo_updateProgress(jobId, progress, lastProcessedChunkIndex, processedChunksCount, processedEmbeddingsCount) ==
    IF jobId \in DOMAIN store
    THEN LET updatedJob == UpdateProgressRow(store[jobId], progress, lastProcessedChunkIndex, processedChunksCount, processedEmbeddingsCount) IN
            [table |-> [store EXCEPT ![jobId] = updatedJob], result |-> Some(MapToEntity(updatedJob))]
    ELSE [table |-> store, result |-> None]

\* the progress values passed to the repository: below, within and above range
RepoProgressInputs == {-5, 40, 150}

InitProgress ==
    /\ \E d \in DocumentIds, t \in ProcessingType :
          store = [i \in {"j1"} |-> Create("j1", d, t, [contentHash |-> Some(Hash)])]
    /\ saves = 0
    /\ impl = "service"
    /\ job = None
    /\ prevJob = None
    /\ lastOp = [op |-> "create", ok |-> TRUE, args |-> NoArgs]

RP_UpdateStatus ==
    /\ \E jobId \in JobIdInputs, newStatus \in ProcessingStatus, errorMessage \in {None, Some("boom")} :
          LET u == UpdateStatus(jobId, newStatus, errorMessage) IN
          /\ (jobId \in DOMAIN store /\ newStatus = RUNNING) => store[jobId].attemptCount < MaxRuns
          /\ store' = u.table
          /\ prevJob' = FindById(jobId)
          /\ job' = u.result
          /\ lastOp' = [op |-> "updateStatus", ok |-> u.result # None, args |-> [NoArgs EXCEPT !.error = errorMessage]]
    /\ UNCHANGED <<now, impl, saves, deadLetters, procs, run, schema, documents>>

RP_UpdateProgress ==
    /\ \E jobId \in JobIdInputs, p \in RepoProgressInputs, ci \in CheckpointInputs, cc \in CheckpointInputs, ec \in CheckpointInputs :
          LET u == Repo_updateProgress(jobId, p, ci, cc, ec) IN
          /\ store' = u.table
          /\ prevJob' = FindById(jobId)
          /\ job' = u.result
          /\ lastOp' = [op |-> "updateProgress", ok |-> u.result # None,
                        args |-> [NoArgs EXCEPT !.progress = p, !.chunkIndex = ci, !.chunks = cc, !.embeddings = ec]]
    /\ UNCHANGED <<now, impl, saves, deadLetters, procs, run, schema, documents>>

NextProgress ==
    \/ RP_UpdateStatus
    \/ RP_UpdateProgress

ProgressStart == InitClock /\ NoIndex /\ InitProgress /\ NoDeadLetters /\ NoProcs /\ NoRun /\ NoDocuments

SpecProgress == ProgressStart /\ [][NextProgress]_vars

\* C16: the repository's updateProgress is accepted only for a RUNNING job
\* and changes nothing but progress and the checkpoint fields passed: status,
\* attemptCount, errorMessage, jobDetails, result, startedAt and completedAt
\* are unchanged, and an omitted checkpoint argument keeps its value.
C16_UpdateProgressFrame ==
    (lastOp.op = "updateProgress" /\ lastOp.ok) =>
        /\ prevJob # None
        /\ prevJob[1].status = RUNNING
        /\ job[1].status = prevJob[1].status
        /\ job[1].attemptCount = prevJob[1].attemptCount
        /\ job[1].errorMessage = prevJob[1].errorMessage
        /\ job[1].jobDetails = prevJob[1].jobDetails
        /\ job[1].result = prevJob[1].result
        /\ job[1].startedAt = prevJob[1].startedAt
        /\ job[1].completedAt = prevJob[1].completedAt
        /\ lastOp.args.chunkIndex = None => job[1].lastProcessedChunkIndex = prevJob[1].lastProcessedChunkIndex
        /\ lastOp.args.chunks = None => job[1].processedChunksCount = prevJob[1].processedChunksCount
        /\ lastOp.args.embeddings = None => job[1].processedEmbeddingsCount = prevJob[1].processedEmbeddingsCount

(***************************************************************************)
(* The reaper scenario: a stale-job sweep, markStaleJobsAsFailed, runs     *)
(* while one caller processes documents (processDocument) and another      *)
(* drives a job through save(job.start()) and save(job.complete()) on the  *)
(* snapshot it holds.  lastOp is the last sweep: its cutoff, the count it  *)
(* returned and its number.                                                *)
(***************************************************************************)
MaxSweeps == 2          \* sweeps explored in the reaper scenario

TimeoutMessage == "Job marked as failed due to timeout"

\* the rows PrismaProcessingJobRepository.markStaleJobsAsFailed selects; a
\* row whose startedAt is NULL does not satisfy startedAt < cutoffDate
Repository_staleRows(table, cutoffDate) ==
    {k \in DOMAIN table :
        /\ table[k].status \in {RUNNING, RETRYING}
        /\ table[k].startedAt # None
        /\ table[k].startedAt[1] < cutoffDate}

\* the rows PrismaProcessingJobRepositoryAdapter.markStaleJobsAsFailed selects
Adapter_staleRows(table, olderThan) ==
    {k \in DOMAIN table :
        /\ table[k].status \in {PENDING, "IN_PROGRESS", RETRYING}
        /\ table[k].createdAt < olderThan}

\* updateMany: the data written to the rows selected
MarkFailed(table, ids) ==
    [k \in DOMAIN table |->
        IF k \in ids
        THEN [table[k] EXCEPT !.status = FAILED, !.errorMessage = Some(TimeoutMessage), !.completedAt = Some(now)]
        ELSE table[k]]

\* markStaleJobsAsFailed of the repository in use: the table after it and
\* the count it returns
MarkStaleJobsAsFailed(table, cutoffDate) ==
    LET ids == IF impl = "repository" THEN Repository_staleRows(table, cutoffDate) ELSE Adapter_staleRows(table, cutoffDate)
    IN  [table |-> MarkFailed(table, ids), count |-> Cardinality(ids)]

Orchestrator == "c1"
Worker == "c2"

NoSweep == [op |-> "none", cutoff |-> 0, count |-> 0, n |-> 0]

InitReaper ==
    /\ impl \in {"repository", "adapter"}
    /\ store = <<>>
    /\ procs = [c \in Callers |-> IdleWorker]
    /\ lastOp = NoSweep
    /\ job = <<>>
    /\ prevJob = <<>>

\* the worker creates a job and saves it
W_Create ==
    /\ procs[Worker].pc = "idle"
    /\ \E d \in DocumentIds :
          LET newJob == Job_create(LitId("job-2"), d, "TEXT_EXTRACTION", NoDetails) IN
          /\ store' = Save(store, newJob)
          /\ procs' = [procs EXCEPT ![Worker] = [@ EXCEPT !.pc = "created", !.op = "worker", !.documentId = d, !.job = Some(newJob)]]
    /\ UNCHANGED <<now, impl, schema, outsideProc>>

\* save(job.start())
W_Start ==
    /\ procs[Worker].pc = "created"
    /\ LET j == procs[Worker].job[1] IN
          /\ Job_startOk(j)
          /\ store' = Save(store, Job_start(j))
          /\ procs' = [procs EXCEPT ![Worker] = [@ EXCEPT !.pc = "running", !.job = Some(Job_start(j))]]
    /\ UNCHANGED <<now, impl, schema, outsideProc>>

\* save(job.complete(result))
W_Complete ==
    /\ procs[Worker].pc = "running"
    /\ LET j == procs[Worker].job[1] IN
          /\ Job_completeOk(j)
          /\ store' = Save(store, Job_complete(j, Some("text")))
          /\ procs' = [procs EXCEPT ![Worker] = [@ EXCEPT !.pc = "done", !.job = Some(Job_complete(j, Some("text")))]]
    /\ UNCHANGED <<now, impl, schema, outsideProc>>

\* save(job.fail(error))
W_Fail ==
    /\ procs[Worker].pc = "running"
    /\ LET j == procs[Worker].job[1] IN
          /\ Job_failOk(j)
          /\ store' = Save(store, Job_fail(j, "boom"))
          /\ procs' = [procs EXCEPT ![Worker] = [@ EXCEPT !.pc = "done", !.job = Some(Job_fail(j, "boom"))]]
    /\ UNCHANGED <<now, impl, schema, outsideProc>>

\* cleanupStaleJobs: markStaleJobsAsFailed with a cutoff not after now
Sweep ==
    /\ lastOp.n < MaxSweeps
    /\ \E cutoffDate \in 1..now :
          LET r == MarkStaleJobsAsFailed(store, cutoffDate) IN
          /\ store' = r.table
          /\ lastOp' = [op |-> "markStaleJobsAsFailed", cutoff |-> cutoffDate, count |-> r.count, n |-> lastOp.n + 1]
    /\ UNCHANGED <<now, impl, schema, procs, job, prevJob, saves, deadLetters, run, documents>>

NextReaper ==
    \/ PD_Check(Orchestrator)
    \/ PD_Create(Orchestrator)
    \/ EX_Begin(Orchestrator)
    \/ EX_Extracted(Orchestrator)
    \/ EX_Chunk(Orchestrator)
    \/ EX_Embed(Orchestrator)
    \/ EX_Complete(Orchestrator)
    \/ W_Create
    \/ W_Start
    \/ W_Complete
    \/ W_Fail
    \/ Sweep
    \/ Proc_Tick

ReaperStart == InitClock /\ NoIndex /\ InitReaper /\ NoSaves /\ NoDeadLetters /\ NoRun /\ InitDocuments

SpecReaper == ReaperStart /\ [][NextReaper]_vars

\* a stale row: RUNNING or RETRYING, and started (or, when never started,
\* created) before the cutoff
Stale(row, cutoff) ==
    /\ row.status \in {RUNNING, RETRYING}
    /\ OrElse(row.startedAt, row.createdAt) < cutoff

\* C17: markStaleJobsAsFailed(cutoff) moves to FAILED exactly the stale jobs,
\* sets their errorMessage to the timeout reason and their completedAt,
\* leaves every other job unchanged and returns the number of jobs it moved.
\* Stated of PrismaProcessingJobRepository.markStaleJobsAsFailed.
C17_StaleReaping ==
    [][(impl = "repository" /\ lastOp'.n # lastOp.n) =>
          /\ DOMAIN store' = DOMAIN store
          /\ \A id \in DOMAIN store :
                IF Stale(store[id], lastOp'.cutoff)
                THEN /\ store'[id].status = FAILED
                     /\ store'[id].errorMessage = Some(TimeoutMessage)
                     /\ store'[id].completedAt # None
                ELSE store'[id] = store[id]
          /\ lastOp'.count = Cardinality({id \in DOMAIN store : Stale(store[id], lastOp'.cutoff)})]_vars

\* a row the sweep has marked FAILED
Reaped(row) == row.status = FAILED /\ row.errorMessage = Some(TimeoutMessage)

\* C18: reaper versus completion.  A job the sweep has marked FAILED is
\* never afterwards overwritten to RUNNING or COMPLETED by a later save of
\* the caller that was processing it, and a job already COMPLETED is never
\* marked FAILED by the sweep.
C18_ReaperRace ==
    [][\A id \in DOMAIN store :
          /\ Reaped(store[id]) => store'[id].status \notin {RUNNING, COMPLETED}
          /\ (store[id].status = COMPLETED /\ lastOp'.n # lastOp.n) => store'[id].status = COMPLETED]_vars

(***************************************************************************)
(* Further properties of the retry scenario.                               *)
(***************************************************************************)
\* the dead-letter records that carry the job id given
RecordsOf(id) == {i \in 1..Len(deadLetters) : deadLetters[i].jobId = id}

\* C19: every job left in DEAD_LETTER status has exactly one dead-letter
\* record with its jobId, and no jobId has more than one record.
C19_OneRecordPerDeadLetterJob ==
    /\ \A id \in DOMAIN store :
          store[id].status = DEAD_LETTER => Cardinality(RecordsOf(id)) = 1
    /\ run.currentJob.status = DEAD_LETTER => Cardinality(RecordsOf(run.currentJob.id)) = 1
    /\ \A i \in 1..Len(deadLetters) : Cardinality(RecordsOf(deadLetters[i].jobId)) = 1

(***************************************************************************)
(* Further properties of the processing scenario.                          *)
(***************************************************************************)
\* the error messages of a stage that was made to fail
StageFailures == {Some("boom"), Some("stage error")}

\* C20: when the document exists and every stage (text extraction, chunking,
\* embedding generation) succeeds, processDocument ends with the job stored
\* COMPLETED with progress 100 and returns that status, whether or not the
\* document had extracted text and a text hash before.
C20_ProcessDocumentCompletes ==
    \A c \in Callers :
        (/\ procs[c].pc = "done"
         /\ procs[c].op = "processDocument"
         /\ procs[c].currentJob # None
         /\ procs[c].currentJob[1].errorMessage \notin StageFailures)
        => /\ procs[c].currentJob[1].status = COMPLETED
           /\ procs[c].currentJob[1].progress = 100
           /\ store[procs[c].currentJob[1].id].status = COMPLETED

\* C21: stage-handler exceptions never escape the orchestrator.  In every
\* step in which a stage collaborator (storage read, text extraction,
\* chunking, embedding) throws during processDocument or retryJob, the call
\* does not reject, and the job the stage worked on is stored FAILED with
\* errorMessage equal to the message of the exception.
C21_StageExceptionsContained ==
    [][\A c \in Callers :
          (procs[c].pc \in {"extracting", "chunking", "embedding"} /\ procs'[c].pc = "done" /\ procs'[c].stageError # None)
          => /\ ~procs'[c].threw
             /\ LET id == procs[c].param[1].id IN
                   /\ id \in DOMAIN store'
                   /\ store'[id].status = FAILED
                   /\ store'[id].errorMessage = procs'[c].stageError]_vars

\* C22: cancellation is final for the orchestrator.  Once cancelJob has
\* stored CANCELLED for a job, no later step changes that stored status: an
\* orchestrator still executing a stage for the job does not overwrite it
\* with RUNNING, COMPLETED or FAILED.  And cancelJob on a job whose status is
\* already COMPLETED, FAILED or CANCELLED throws and leaves the store as it
\* was.
C22_CancelIsFinal ==
    [][/\ \A id \in DOMAIN store :
             store[id].status = CANCELLED => store'[id].status = CANCELLED
       /\ \A c \in Callers :
             (procs'[c].op = "cancelJob" /\ procs'[c].calls # procs[c].calls /\ procs'[c].pc = "done")
             => procs'[c].threw /\ store' = store]_vars

\* C23: updateStatus is a no-op on a missing job or an invalid transition.
\* A call updateStatus(jobId, newStatus) that finds no job under jobId, or
\* finds one from whose status the table does not allow newStatus, returns
\* null at once and leaves the stored rows (status, attemptCount,
\* timestamps, errorMessage) as they were; it does not throw.
C23_UpdateStatusNoOp ==
    [][\A c \in Callers :
          LET call == procs'[c] IN
          (/\ call.calls # procs[c].calls
           /\ \/ call.jobId \notin DOMAIN store
              \/ ~CanTransitionTo(store[call.jobId].status, call.newStatus))
          => /\ call.pc = "done"
             /\ call.result = None
             /\ store' = store]_vars

\* one call has returned null for a job that does not exist and another for
\* a transition the table does not allow
C23_Witness ==
    \E c, d \in Callers :
        /\ procs[c].pc = "done" /\ procs[c].currentJob = None /\ procs[c].result = None
        /\ procs[d].pc = "done" /\ procs[d].currentJob # None /\ procs[d].result = None
        /\ ~CanTransitionTo(procs[d].currentJob[1].status, procs[d].newStatus)
        /\ procs[d].jobId \in DOMAIN store
        /\ store[procs[d].jobId] = procs[d].currentJob[1]

(***************************************************************************)
(* The two backoff functions, RetryService.calculateDelay and              *)
(* getBackoffDelay, applied to an attempt number and to the next one.      *)
(* RETRY_CONFIG is not among the sources: its delays are the defaults the  *)
(* specification gives, and its jitter flag is either value.               *)
(***************************************************************************)
MaxAttemptNumber == 7   \* attempt numbers given to the delay functions

\* RETRY_CONFIG
baseDelayMs == 1000
maxDelayMs == 30000

\* Math.random(), in quarters: 0, 0.25, 0.5, 0.75
RandomQuarters == 0 .. 3

\* getBackoffDelay; random and coin are the two values of Math.random()
GetBackoffDelay(attempt, jitter, random, coin) ==
    LET delay == Min(baseDelayMs * 2 ^ attempt, maxDelayMs)
        amount == (random * delay) \div 20      \* (random / 4) * delay * 0.2
        jittered == IF jitter THEN delay + (IF coin > 2 THEN amount ELSE 0 - amount) ELSE delay
    IN  Max(0, jittered)

InitBackoff ==
    \E jitter \in BOOLEAN :
        run = [jitter |-> jitter, fn |-> "none", attempt |-> 0, delay |-> 0, next |-> 0]

\* calculateDelay(n) and calculateDelay(n + 1)
BO_CalculateDelay ==
    /\ \E n \in 0 .. MaxAttemptNumber :
          run' = [run EXCEPT !.fn = "calculateDelay", !.attempt = n,
                             !.delay = CalculateDelay(n), !.next = CalculateDelay(n + 1)]
    /\ UNCHANGED <<now, store, deadLetters, outsideRetry>>

\* getBackoffDelay(n) and getBackoffDelay(n + 1)
BO_GetBackoffDelay ==
    /\ \E n \in 0 .. MaxAttemptNumber, r1, c1, r2, c2 \in RandomQuarters :
          run' = [run EXCEPT !.fn = "getBackoffDelay", !.attempt = n,
                             !.delay = GetBackoffDelay(n, run.jitter, r1, c1),
                             !.next = GetBackoffDelay(n + 1, run.jitter, r2, c2)]
    /\ UNCHANGED <<now, store, deadLetters, outsideRetry>>

NextBackoff ==
    \/ BO_CalculateDelay
    \/ BO_GetBackoffDelay

BackoffStart == InitClock /\ NoIndex /\ InitBackoff /\ NoJob /\ NoStore /\ NoDeadLetters /\ NoProcs /\ NoDocuments

SpecBackoff == BackoffStart /\ [][NextBackoff]_vars

\* C24: backoff bound and monotonicity.  For every attempt number n >= 0
\* the delay either function returns is at most maxDelay (30000 ms), and the
\* delay for n is at most the delay for n + 1, also with jitter enabled.
C24_BackoffBoundedMonotone ==
    run.fn # "none" =>
        /\ run.delay <= maxDelay
        /\ run.next <= maxDelay
        /\ run.delay <= run.next

\* C25: the backoff formula.  With jitter disabled the delay for attempt
\* count n is min(baseDelay * 2^n, maxDelay), baseDelay = 1000 ms and
\* maxDelay = 30000 ms, for every n >= 0 and in both functions, which
\* therefore agree.
C25_BackoffFormula ==
    (run.fn = "calculateDelay" \/ (run.fn = "getBackoffDelay" /\ ~run.jitter)) =>
        /\ run.delay = Min(1000 * 2 ^ run.attempt, 30000)
        /\ run.next = Min(1000 * 2 ^ (run.attempt + 1), 30000)

\* the attempt counts shouldRetry is asked about
AttemptCounts == 0 .. 5

\* C26: the retry decision.  shouldRetry(attempt) is true exactly when
\* attempt < maxAttempts (3).  handleFailedJob, given a failed job, sends it
\* back to RETRYING exactly when shouldRetry(job.attemptCount) is true and
\* otherwise moves it to DEAD_LETTER, so a job whose attemptCount has reached
\* 3 is never retried.
C26_RetryDecision ==
    [][(run.path = "deadLetterQueue" /\ run.pc = "failed") =>
          LET failedJob == run.currentJob IN
             /\ \A a \in AttemptCounts : ShouldRetry(a) <=> a < 3
             /\ IF failedJob.attemptCount < 3
                THEN run'.pc = "start" /\ store'[failedJob.id].status = RETRYING
                ELSE run'.pc = "done" /\ store'[failedJob.id].status = DEAD_LETTER
             /\ store'[failedJob.id].attemptCount = failedJob.attemptCount]_vars

\* handleFailedJob has retried the job twice and, at attemptCount 3, moved it
\* to DEAD_LETTER
C26_Witness ==
    /\ run.path = "deadLetterQueue"
    /\ run.pc = "done"
    /\ ~run.threw
    /\ run.failures = 3
    /\ run.currentJob.attemptCount = 3
    /\ store[run.currentJob.id].status = DEAD_LETTER
    /\ now = 1 + CalculateDelay(1) + CalculateDelay(2)

\* C27: retryJob returns null instead of throwing.  A call retryJob(jobId)
\* for a job that does not exist, or that cannot be retried (its status is
\* not FAILED, COMPLETED for one), returns null without an exception and
\* without a repository save.
C27_RetryJobReturnsNull ==
    [][\A c \in Callers :
          (procs'[c].op = "retryJob" /\ procs'[c].calls # procs[c].calls /\ procs'[c].pc = "done")
          => /\ ~procs'[c].threw
             /\ procs'[c].currentJob = None
             /\ store' = store]_vars

\* C28: the result of retryJob.  retryJob on a FAILED job with retryCount 0
\* stores and returns a job whose status is RETRYING and whose retryCount
\* is 1; the new job's parentJobId or retryOf names the original job, and
\* the original job stays FAILED.
C28_RetryJobResult ==
    [][\A c \in Callers :
          (/\ procs[c].pc = "retryCreate"
           /\ procs'[c].pc = "execute"
           /\ procs[c].param[1].retryCount = 0
           /\ OrElse(procs[c].param[1].jobDetails.retryCount, 0) = 0)
          => LET original == procs[c].param[1]
                 savedJob == procs'[c].job[1]
             IN  /\ savedJob.id \in DOMAIN store'
                 /\ store'[savedJob.id].status = RETRYING
                 /\ savedJob.status = RETRYING
                 /\ savedJob.retryCount = 1
                 /\ Some(original.id) \in {savedJob.parentJobId, savedJob.jobDetails.retryOf}
                 /\ store'[original.id].status = FAILED]_vars

(***************************************************************************)
(* The static wiring: ProcessingJobService.deadLetterRepo and the          *)
(* instance fields of RetryService and DeadLetterQueueService, under any   *)
(* order of setDeadLetterRepo, validateDependencies, constructions and     *)
(* getInstance calls.  Instances are numbered in order of construction.    *)
(***************************************************************************)
MaxInstances == 2       \* instances constructed of each service

\* the arguments given to setDeadLetterRepo: null/undefined or a repository
RepoInputs == {None, Some("repoA"), Some("repoB")}

\* the constructor of RetryService that leaves an instance already set
RetryService_constructor_KeepFirst(r) ==
    [r EXCEPT !.retryMade = @ + 1,
              !.retryInstance = IF @ = None THEN Some(r.retryMade + 1) ELSE @]

\* the constructor of RetryService: RetryService.instance = this
RetryService_constructor(r) ==
    [r EXCEPT !.retryMade = @ + 1, !.retryInstance = Some(r.retryMade + 1)]

\* the constructor of DeadLetterQueueService
DeadLetterQueueService_constructor(r) ==
    [r EXCEPT !.dlqMade = @ + 1, !.dlqInstance = Some(r.dlqMade + 1)]

\* the outcome of a call: thrown, or returned with a value or without
ConfigCall(op, arg, threw, returned) == [op |-> op, arg |-> arg, threw |-> threw, returned |-> returned]

InitConfig ==
    run = [deadLetterRepo |-> None, retryInstance |-> None, retryMade |-> 0,
           dlqInstance |-> None, dlqMade |-> 0, last |-> ConfigCall("none", None, FALSE, None)]

CF_SetDeadLetterRepo ==
    /\ \E repo \in RepoInputs :
          run' = IF repo = None
                 THEN [run EXCEPT !.last = ConfigCall("setDeadLetterRepo", repo, TRUE, None)]
                 ELSE [run EXCEPT !.deadLetterRepo = repo, !.last = ConfigCall("setDeadLetterRepo", repo, FALSE, None)]
    /\ UNCHANGED <<now, store, deadLetters, outsideRetry>>

CF_ValidateDependencies ==
    /\ run' = [run EXCEPT !.last = ConfigCall("validateDependencies", None, run.deadLetterRepo = None, None)]
    /\ UNCHANGED <<now, store, deadLetters, outsideRetry>>

CF_NewRetryService ==
    /\ run.retryMade < MaxInstances
    /\ run' = [RetryService_constructor(run) EXCEPT !.last = ConfigCall("new RetryService", None, FALSE, None)]
    /\ UNCHANGED <<now, store, deadLetters, outsideRetry>>

\* new DeadLetterQueueService(jobRepository, retryService), given a
\* RetryService that was constructed before
CF_NewDeadLetterQueueService ==
    /\ run.dlqMade < MaxInstances
    /\ run.retryMade > 0
    /\ run' = [DeadLetterQueueService_constructor(run) EXCEPT !.last = ConfigCall("new DeadLetterQueueService", None, FALSE, None)]
    /\ UNCHANGED <<now, store, deadLetters, outsideRetry>>

CF_RetryGetInstance ==
    /\ run' = [run EXCEPT !.last = ConfigCall("RetryService.getInstance", None, run.retryInstance = None, run.retryInstance)]
    /\ UNCHANGED <<now, store, deadLetters, outsideRetry>>

CF_DlqGetInstance ==
    /\ run' = [run EXCEPT !.last = ConfigCall("DeadLetterQueueService.getInstance", None, run.dlqInstance = None, run.dlqInstance)]
    /\ UNCHANGED <<now, store, deadLetters, outsideRetry>>

NextConfig ==
    \/ CF_SetDeadLetterRepo
    \/ CF_ValidateDependencies
    \/ CF_NewRetryService
    \/ CF_NewDeadLetterQueueService
    \/ CF_RetryGetInstance
    \/ CF_DlqGetInstance

ConfigStart == InitClock /\ NoIndex /\ InitConfig /\ NoJob /\ NoStore /\ NoDeadLetters /\ NoProcs /\ NoDocuments

SpecConfig == ConfigStart /\ [][NextConfig]_vars

\* C29: configuration errors fail fast.  setDeadLetterRepo(null) throws and
\* leaves the registered repository as it was; validateDependencies throws
\* exactly when no repository is registered; getInstance of RetryService and
\* of DeadLetterQueueService throws before any instance was constructed and
\* afterwards returns the instance constructed last.
C29_ConfigurationFailsFast ==
    [][LET call == run'.last IN
          /\ (call.op = "setDeadLetterRepo" /\ call.arg = None)
                => call.threw /\ run'.deadLetterRepo = run.deadLetterRepo
          /\ call.op = "validateDependencies"
                => (call.threw <=> run.deadLetterRepo = None)
          /\ call.op = "RetryService.getInstance"
                => IF run.retryMade = 0 THEN call.threw
                   ELSE ~call.threw /\ call.returned = Some(run.retryMade)
          /\ call.op = "DeadLetterQueueService.getInstance"
                => IF run.dlqMade = 0 THEN call.threw
                   ELSE ~call.threw /\ call.returned = Some(run.dlqMade)]_vars

\* with a repository registered and two instances of each service
\* constructed, RetryService.getInstance has returned the second one
C29_Witness ==
    /\ run.deadLetterRepo = Some("repoA")
    /\ run.retryMade = 2
    /\ run.dlqMade = 2
    /\ run.last = ConfigCall("RetryService.getInstance", None, FALSE, Some(2))

(***************************************************************************)
(* UploadDocumentUseCase.execute, one await at a time: validation and      *)
(* findByFileHash, the storage upload, the database save (plain or with    *)
(* chunks and embeddings in one transaction) and, when the save fails,     *)
(* the storage rollback.  Each collaborator call returns or throws.        *)
(***************************************************************************)
MaxUploads == 2         \* execute calls explored

\* the files offered: name, whether application/pdf, whether above 100MB
UploadFiles ==
    {[name |-> "a", pdf |-> TRUE, large |-> FALSE],
     [name |-> "b", pdf |-> TRUE, large |-> FALSE],
     [name |-> "c", pdf |-> FALSE, large |-> FALSE],
     [name |-> "d", pdf |-> TRUE, large |-> TRUE]}

NoFile == [name |-> "", pdf |-> FALSE, large |-> FALSE]

\* the state between calls: objects holds the file names in storage, removed
\* those moved to deleted/, documents the rows of the Document table
InitUpload ==
    run = [pc |-> "idle", uploads |-> 0, file |-> NoFile, atomic |-> FALSE, fileName |-> None,
           objects |-> {}, removed |-> {}, documents |-> {},
           uploadCalls |-> 0, saveCalls |-> 0, rollbackCalls |-> 0, outcome |-> "none"]

\* execute ends with the outcome given
UploadEnds(r, outcome) == [r EXCEPT !.pc = "done", !.outcome = outcome]

\* a catch of the failed save that throws without touching the storage
Rollback_Skipped(r, ok) == UploadEnds(r, "DocumentNotSavedError")

\* the catch of the failed save: softDeleteDocument(storageResult.fileName),
\* which returns (ok) or throws, then the error thrown
Rollback(r, ok) ==
    IF ok
    THEN UploadEnds([r EXCEPT !.rollbackCalls = @ + 1,
                              !.objects = @ \ {r.fileName[1]},
                              !.removed = @ \cup {r.fileName[1]}], "DocumentNotSavedError")
    ELSE UploadEnds([r EXCEPT !.rollbackCalls = @ + 1], "StorageRollbackError")

\* execute up to the storage upload: the mimetype and size checks and the
\* duplicate check by file hash
UP_Validate ==
    /\ run.pc \in {"idle", "done"}
    /\ run.uploads < MaxUploads
    /\ \E file \in UploadFiles, atomic \in BOOLEAN :
          LET call == [run EXCEPT !.uploads = @ + 1, !.file = file, !.atomic = atomic, !.fileName = None,
                                  !.uploadCalls = 0, !.saveCalls = 0, !.rollbackCalls = 0, !.outcome = "none"]
              existingDocument == \E d \in run.documents : d.fileHash = file.name
          IN  run' = IF ~file.pdf \/ file.large \/ existingDocument
                     THEN UploadEnds(call, "BadRequestException")
                     ELSE [call EXCEPT !.pc = "upload"]
    /\ UNCHANGED <<now, store, deadLetters, outsideRetry>>

\* storageAdapter.uploadDocument: the file is stored under a new name, or
\* the upload throws and execute rejects with its error
UP_Upload ==
    /\ run.pc = "upload"
    /\ \E ok \in BOOLEAN :
          run' = IF ok
                 THEN LET fileName == <<run.file.name, run.uploads>> IN
                      [run EXCEPT !.pc = "save", !.uploadCalls = @ + 1, !.fileName = Some(fileName),
                                  !.objects = @ \cup {fileName}]
                 ELSE UploadEnds([run EXCEPT !.uploadCalls = @ + 1], "Storage upload failed")
    /\ UNCHANGED <<now, store, deadLetters, outsideRetry>>

\* documentRepository.save, or saveWithChunksAndEmbeddings when pre-generated
\* data is reused: the document is stored (with its chunks, all or nothing)
\* and returned, or the save throws and the catch rolls the storage back
UP_Save ==
    /\ run.pc = "save"
    /\ \E saved \in BOOLEAN, rolledBack \in BOOLEAN :
          LET r == [run EXCEPT !.saveCalls = @ + 1] IN
          run' = IF saved
                 THEN UploadEnds([r EXCEPT !.documents = @ \cup {[fileHash |-> run.file.name, fileName |-> run.fileName[1], chunks |-> run.atomic]}], "returned")
                 ELSE Rollback(r, rolledBack)
    /\ UNCHANGED <<now, store, deadLetters, outsideRetry>>

NextUpload ==
    \/ UP_Validate
    \/ UP_Upload
    \/ UP_Save

UploadStart == InitClock /\ NoIndex /\ InitUpload /\ NoJob /\ NoStore /\ NoDeadLetters /\ NoProcs /\ NoDocuments

SpecUpload == UploadStart /\ [][NextUpload]_vars

HoldsFailed(p) == p.currentJob # None /\ p.currentJob[1].status = FAILED

\* C31: the stages of a call run in the order text extraction, chunking,
\* embedding generation.  A call reaches chunking only from a finished text
\* extraction or from the start when the document already has its text and
\* hash; it reaches embedding generation only from a chunking that
\* succeeded; and a step that leaves the call's job FAILED ends the call
\* without a further stage and without marking the document PROCESSED.
C31_StageOrder ==
    [][\A c \in Callers :
          LET before == procs[c]
              after == procs'[c]
          IN  /\ (after.pc = "chunking" /\ before.pc # "chunking")
                    => \/ /\ before.pc = "extracting"
                          /\ after.currentJob[1].progress = 30
                       \/ /\ before.pc = "execute"
                          /\ before.document.extractedText
                          /\ before.document.textHash
                          /\ ~before.replaceResults
              /\ (after.pc = "embedding" /\ before.pc # "embedding")
                    => /\ before.pc = "chunking"
                       /\ after.currentJob[1].status = RUNNING
                       /\ after.currentJob[1].progress = 60
              /\ (after.pc = "completing" /\ before.pc # "completing")
                    => /\ before.pc = "embedding"
                       /\ after.currentJob[1].progress = 90
              /\ (before.pc \in {"execute", "extracting", "chunking", "embedding", "completing"} /\ HoldsFailed(after))
                    => /\ after.pc = "done"
                       /\ before.pc # "completing" => documents' = documents]_vars

\* a call has run all three stages in order and another has stopped at a
\* failed chunking
C31_Witness ==
    \E c, d \in Callers :
        /\ procs[c].pc = "completing"
        /\ procs[c].currentJob[1].progress = 90
        /\ procs[d].pc = "done"
        /\ HoldsFailed(procs[d])
        /\ procs[d].currentJob[1].errorMessage = Some("stage error")
        /\ procs[d].currentJob[1].progress = 40

C39_DistinctJobIds ==
    [][\A c \in Callers :
          (/\ procs[c].pc \in {"create", "retryCreate"}
           /\ procs'[c].pc = "execute")
          => /\ procs'[c].job[1].id \notin DOMAIN store
             /\ \A d \in Callers \ {c} :
                   procs[d].job # None => procs[d].job[1].id # procs'[c].job[1].id]_vars

\* C35: isTerminal and the transition table agree.  isTerminal holds of a
\* job exactly when its status has no outgoing edge in canTransitionTo's
\* table, and a fail or a cancel that was rejected was applied to a status
\* from which the table has no edge to FAILED, respectively to CANCELLED.
C35_TerminalIffNoEdge ==
    impl = "service" =>
       /\ IsTerminal(job) <=> (\A t \in ProcessingStatus : ~CanTransitionTo(job.status, t))
       /\ (lastOp.op = "fail" /\ ~lastOp.ok) => ~CanTransitionTo(prevJob.status, FAILED)
       /\ (lastOp.op = "cancel" /\ ~lastOp.ok) => ~CanTransitionTo(prevJob.status, CANCELLED)

\* the statuses a ProcessingJobService mutator produces
MutatorTargets == {MutatorTarget(op) : op \in Mutators}

\* the guard of the mutator that produces the target status
MutatorOk(j, target) ==
    CASE target = RUNNING -> StartOk(j)
      [] target = COMPLETED -> CompleteOk(j)
      [] target = FAILED -> FailOk(j)
      [] target = CANCELLED -> CancelOk(j)
      [] target = RETRYING -> RetryOk(j)

\* the job the mutator that produces the target status returns
MutatorResult(j, target, errorMessage) ==
    CASE target = RUNNING -> Start(j)
      [] target = COMPLETED -> Complete(j, None)
      [] target = FAILED -> Fail(j, errorMessage[1])
      [] target = CANCELLED -> Cancel(j)
      [] target = RETRYING -> Retry(j)

\* the fields the two paths are compared on
Compared(j) ==
    [status |-> j.status, progress |-> j.progress, attemptCount |-> j.attemptCount,
     errorMessage |-> j.errorMessage, started |-> j.startedAt # None, completed |-> j.completedAt # None]

\* C36: the repository path and the service path agree.  An updateStatus
\* call whose target is the status of a mutator, given an error message
\* exactly when the target is FAILED, passes its validation exactly when
\* the mutator accepts the job it read, and when its write follows that
\* read with no other write between, the stored job has the status,
\* progress, attemptCount, errorMessage, startedAt presence and
\* completedAt presence of the mutator's result.
C36_RepositoryAgreesWithService ==
    [][\A c \in Callers :
          LET p == procs'[c]
              comparable == /\ p.newStatus \in MutatorTargets
                            /\ p.currentJob # None
                            /\ (p.errorMessage # None) <=> (p.newStatus = FAILED)
          IN  /\ (procs[c].pc \in {"idle", "done"} /\ procs[c].calls < p.calls /\ comparable)
                    => ((p.pc = "write") <=> MutatorOk(p.currentJob[1], p.newStatus))
              /\ (procs[c].pc = "write" /\ p.pc = "done" /\ comparable /\ store[p.jobId] = p.currentJob[1])
                    => /\ p.result # None
                       /\ Compared(store'[p.jobId]) = Compared(MutatorResult(p.currentJob[1], p.newStatus, p.errorMessage))]_vars

\* C37: a completed job shows full progress.  Every stored job in status
\* COMPLETED has progress 100, and no step changes the progress of a stored
\* job that is not RUNNING, except the step that completes it.
C37_CompletedHasFullProgress ==
    [][\A id \in DOMAIN store' :
          /\ store'[id].status = COMPLETED => store'[id].progress = 100
          /\ (id \in DOMAIN store /\ store[id].status # RUNNING /\ store'[id].status # COMPLETED)
                => store'[id].progress = store[id].progress]_vars

(***************************************************************************)
(* The failure-handling scenario: the worker of the dead-letter path, and  *)
(* DeadLetterQueueService.handleFailedJob called with the stored job and   *)
(* an error whenever the job is stored RUNNING, FAILED or RETRYING.        *)
(***************************************************************************)
\* DeadLetterQueueService.handleFailedJob(job, error): the table after it,
\* the job it returns (None when it throws) and the delay it waited
HandleFailedJob(failedJob, error) ==
    IF ~ShouldRetry(failedJob.attemptCount)
    THEN LET u == UpdateStatus(failedJob.id, DEAD_LETTER, Some(error)) IN
            [table |-> u.table, result |-> u.result, delay |-> 0]
    ELSE LET u == UpdateStatus(failedJob.id, RETRYING, None) IN
            [table |-> u.table, result |-> u.result, delay |-> CalculateDelay(failedJob.attemptCount)]

\* the statuses handleFailedJob is handed
HandledStatuses == {RUNNING, FAILED, RETRYING}

\* a call of handleFailedJob with the stored job and the error given
HF_HandleFailedJob(error) ==
    /\ run.path = "deadLetterQueue"
    /\ run.pc \in {"start", "invoke", "failed"}
    /\ run.currentJob.id \in DOMAIN store
    /\ store[run.currentJob.id].status \in HandledStatuses
    /\ LET h == HandleFailedJob(MapToEntity(store[run.currentJob.id]), error) IN
          /\ now' = now + h.delay
          /\ store' = h.table
          /\ run' = IF h.result = None THEN Throws
                    ELSE [run EXCEPT !.pc = IF h.result[1].status = RETRYING THEN "start" ELSE "done",
                                     !.currentJob = h.result[1]]
    /\ UNCHANGED <<deadLetters, outsideRetry>>

NextHandle ==
    \/ Dlq_Start
    \/ Dlq_StageReturns
    \/ Dlq_StageThrows
    \/ \E error \in StageErrors : HF_HandleFailedJob(error)

HandleStart == RetryStart /\ run.path = "deadLetterQueue"

SpecHandle == HandleStart /\ [][NextHandle]_vars

\* C33: handleFailedJob does not throw.  A call of handleFailedJob with a
\* job stored RUNNING, FAILED or RETRYING returns: the job in status
\* RETRYING when its attemptCount is below 3, and otherwise the job in
\* status DEAD_LETTER with the message of the error as its errorMessage.
C33_HandleFailedJobReturns ==
    [][\A error \in StageErrors :
          HF_HandleFailedJob(error) =>
             LET failedJob == store[run.currentJob.id] IN
                /\ ~run'.threw
                /\ run'.currentJob = store'[failedJob.id]
                /\ IF failedJob.attemptCount < 3
                   THEN run'.currentJob.status = RETRYING
                   ELSE /\ run'.currentJob.status = DEAD_LETTER
                        /\ run'.currentJob.errorMessage = Some(error)]_vars

(***************************************************************************)
(* The retry scenario of DocumentProcessingService: one caller processes   *)
(* documents and calls retryJob on stored jobs, one call after another.    *)
(***************************************************************************)
MaxChainCalls == 3      \* processDocument and retryJob calls of the one caller

Retrier == "c1"

NextChain ==
    \/ PD_Check(Retrier)
    \/ PD_Create(Retrier)
    \/ EX_Begin(Retrier)
    \/ EX_Extracted(Retrier)
    \/ EX_Chunk(Retrier)
    \/ EX_Embed(Retrier)
    \/ EX_Complete(Retrier)
    \/ RJ_FindWithin(Retrier, MaxChainCalls)
    \/ RJ_Create(Retrier)
    \/ Proc_Tick

ChainStart == ProcStart /\ schema = "none"

SpecChain == ChainStart /\ [][NextChain]_vars

\* the stored retry jobs made from the job of the id given, directly
\* (`retry-${id}-${stamp}`) or through retries of its retries
RetriesOf(id) ==
    {r \in DOMAIN store :
        /\ r.base = id.base
        /\ Len(r.stamps) > Len(id.stamps)
        /\ SubSeq(r.stamps, 1, Len(id.stamps)) = id.stamps}

\* the retry jobs made from the job itself
DirectRetriesOf(id) == {r \in RetriesOf(id) : Len(r.stamps) = Len(id.stamps) + 1}

\* C34: bounded retries per job.  Of every stored job at most 3 retry jobs
\* are stored, counting those made from its retries, and at most one retry
\* job is made from any one job.
C34_BoundedRetries ==
    \A id \in DOMAIN store :
        /\ Cardinality(RetriesOf(id)) <= 3
        /\ Cardinality(DirectRetriesOf(id)) <= 1

(***************************************************************************)
(* The reclamation scenario: the callers of the reaper scenario may stop   *)
(* at any point (a crashed worker takes no further step), the clock keeps  *)
(* advancing up to MaxTime, and cleanupStaleJobs runs again and again.     *)
(***************************************************************************)
\* cleanupStaleJobs(0): markStaleJobsAsFailed with the current time as the
\* cutoff, the most any maxAgeHours >= 0 selects; the sweeps are numbered
\* by their parity, so that every sweep is a step
Reap ==
    /\ LET r == MarkStaleJobsAsFailed(store, now) IN
          /\ store' = r.table
          /\ lastOp' = [op |-> "markStaleJobsAsFailed", cutoff |-> now, count |-> r.count, n |-> (lastOp.n + 1) % 2]
    /\ UNCHANGED <<now, impl, schema, procs, job, prevJob, saves, deadLetters, run, documents>>

NextReclaim ==
    \/ PD_Check(Orchestrator)
    \/ PD_Create(Orchestrator)
    \/ EX_Begin(Orchestrator)
    \/ EX_Extracted(Orchestrator)
    \/ W_Create
    \/ W_Start
    \/ W_Complete
    \/ W_Fail
    \/ Reap
    \/ Proc_Tick

\* the reaper is scheduled fairly and time passes; no caller is required to
\* take its next step
ReclaimFairness == WF_vars(Reap) /\ WF_vars(Proc_Tick)

SpecReclaim == ReaperStart /\ [][NextReclaim]_vars /\ ReclaimFairness

\* the ids under which the callers of the scenario store their jobs
ReclaimIds == {StampedId("job", t) : t \in 1..MaxTime} \cup {LitId("job-2")}

\* a stored job a worker has left RUNNING or RETRYING, created before the
\* last clock value (so that a cutoff after its creation is reached)
LeftActive(id) ==
    /\ id \in DOMAIN store
    /\ store[id].status \in {RUNNING, RETRYING}
    /\ store[id].createdAt < MaxTime

\* the job is stored and no longer PENDING, RUNNING or RETRYING
Reclaimed(id) ==
    /\ id \in DOMAIN store
    /\ store[id].status \notin {PENDING, RUNNING, RETRYING}

\* C32: liveness of reclamation.  Under fair scheduling of the reaper and
\* of the clock, every job stored RUNNING or RETRYING eventually leaves the
\* active statuses, whether its worker goes on or not and whether its
\* startedAt is set or not.
C32_StaleJobsReclaimed ==
    \A id \in ReclaimIds : LeftActive(id) ~> Reclaimed(id)

====
